---------------------------- MODULE Spec2Model ----------------------------
(***************************************************************************)
(* A model of the concurrency examples of the gobestpractice repository:   *)
(* the channel producer GenerateRandomNumbers with its range consumer, the *)
(* fan-in pattern, and the select-based cancellation tests.  Every example *)
(* is a separate test function of the repository: the variable `test'      *)
(* says which one runs, and the variables of the other examples stay at    *)
(* their initial values.                                                   *)
(***************************************************************************)
EXTENDS Integers, Sequences, FiniteSets, TLC

\* Largest `amount' passed to GenerateRandomNumbers (TestRoutine passes 10).
MaxAmount == 3

\* rand.Int() returns a non-negative int; the model draws it from 0..MaxRand.
MaxRand == 1

RandInts == 0..MaxRand

\* Number of input channels of the fan-in, and the most values one of them carries.
NumProducers == 2
MaxFanAmount == 2

Producers == 1..NumProducers

\* The count of printed numbers is kept up to MaxPrinted (the producers of the
\* cancellation tests never stop, so the count has no bound of its own).
MaxPrinted == 2

\* time.Second * 5: the timeout of the select loops, in seconds.
Timeout == 5

\* The clock runs to MaxTime, and further while a timer is still to fire.
MaxTime == 6

\* How many goroutines call the methods of the ThreadSafeMap, and how many
\* calls they make in all.
NumCallers == 2
MaxCalls == 3

\* How many calls of myFunc there are.
NumOnceCalls == 2

\* wg.Add(3) of the closure tests.
ClWgInitial == 3

\* The most options passed to options.New.
MaxOpts == 2

\* The most calls of SetLogger and MyCoolFunction.
MaxLogSteps == 4

\* TestRefreshingTimeout sends two numbers.
RefreshSends == 2

VARIABLES
    test,       \* the test function that runs
    panicked,   \* "none", or the runtime panic that ended the program
    \* ---- GenerateRandomNumbers / TestRoutine
    amount,     \* the parameter `amount'
    output,     \* the channel `output' (before the call: not made yet)
    genPc,      \* position of the producer goroutine
    i,          \* its loop variable
    genVal,     \* the value of rand.Int() it is sending
    emitted,    \* the values it evaluated for sending, in order
    mainPc,     \* position of TestRoutine
    n,          \* the range variable `n'
    received,   \* the values the range loop received, in order
    printed,    \* what fmt.Println wrote
    \* ---- fan-in
    fanAmount,  \* per producer: the length of its sequence
    inCh,       \* per producer: its channel
    prodPc,     \* per producer: its position
    prodI,      \* per producer: its loop variable
    prodEmitted,\* per producer: the values it sent, in order
    fwdPc,      \* per forwarding goroutine: its position
    fwdVal,     \* per forwarding goroutine: <<producer, value>> it forwards
    wg,         \* the counter of the WaitGroup
    coordPc,    \* position of the goroutine that waits and closes
    out,        \* the combined output channel
    fanConsPc,  \* position of the consumer of the combined output
    delivered,  \* the <<producer, value>> pairs it received, in order
    \* ---- TestCancellation / TestCancellationWithContext
    ctx,        \* the context: its error and its Done channel
    cProdPc,    \* position of the goroutine that writes random numbers to c
    cProdVal,   \* the value of rand.Int() it is sending
    cancPc,     \* position of the goroutine that cancels after 5 seconds
    cConsPc,    \* position of the test function in its READ loop
    number,     \* the variable `number' of the receive case
    numPrinted, \* how many numbers fmt.Println wrote, up to MaxPrinted
    cancelSeen, \* whether the cancel (or timeout) case of the select was taken
    \* ---- TestFixedTimeout / TestRefreshingTimeout
    now,        \* the time, in seconds since the test began
    deadline,   \* when the timer of the select's timeout case fires
    armedAt,    \* when the current iteration of the READ loop began
    lastRecv,   \* when the last number was received from c
    cSent,      \* how many numbers the producer of TestRefreshingTimeout has sent
    \* ---- TestOptionalWrite
    optCh,      \* the channel c: its capacity and the elements it buffers
    optPc,      \* where the test routine is
    optConsPc,  \* where the consumer routine is
    optFirst,   \* the case the first select took
    optSecond,  \* the case the second select took
    optGot,     \* what the consumer read from c
    \* ---- TestClosingChannelPitfall / TestClosingChannelPitfallFixed
    pitCh,      \* the channel c
    pitPc,      \* where the consumer routine is
    pitMainPc,  \* where the test routine is
    pitWg,      \* the counter of the wait group
    pitRecv,    \* what the last receive from c returned: value and ok
    pitZeros,   \* how many values the consumer has printed
    \* ---- ThreadSafeMap
    tsMap,      \* the field m: whether it is nil, and its entries
    tsWriter,   \* the goroutine that holds the lock of the RWMutex, or 0
    tsReaders,  \* the goroutines that hold the read lock of the RWMutex
    tsPc,       \* where each goroutine is in its call
    tsOp,       \* the call each goroutine makes: method, key, value
    tsRet,      \* what the last Get of each goroutine returned
    tsCalls,    \* how many calls the goroutines have made in all
    tsPanics,   \* whether the last call of each goroutine ended in a panic
    tsHist,     \* the calls in the order of their critical sections
    \* ---- TestOnce
    once,       \* the sync.Once: its done flag and the holder of its mutex
    oncePc,     \* where each call of myFunc is
    onceBegun,  \* how often the function passed to once.Do was begun
    onceEnded,  \* how often the function passed to once.Do has returned
    twice,      \* how often "See it twice" was printed
    \* ---- TestWaitGroup
    wgCount,    \* the counter of the wait group
    wgPc,       \* where each of the two goroutines is
    wgDeadline, \* when the timer of each goroutine fires
    wgNow,      \* the time, in seconds since the test began
    wgMainPc,   \* where the test routine is
    \* ---- TestGoRoutineClosurePitfall / TestGoRoutineClosurePitfall_Fixed
    customer,   \* the loop variable `customer': the name it holds
    clIdx,      \* how many iterations of the loop have begun
    clMainPc,   \* where the test routine is
    clPc,       \* where each goroutine is
    clArg,      \* the parameter c of each goroutine
    clPrinted,  \* the name each goroutine has printed
    clWg,       \* the counter of the wait group
    \* ---- options.New
    optsArg,    \* the options passed to New
    conn,       \* the connection New builds
    optsIdx,    \* how many options the loop of New has applied
    connPc,     \* where the call of New is
    connStr,    \* what ToString returned for the connection
    \* ---- packagelog
    moduleLogger, \* the package variable moduleLogger
    logs,       \* how many Printf calls each logger has received
    setHistory, \* the loggers passed to SetLogger, in order
    logSteps,   \* how many calls of SetLogger and MyCoolFunction were made
    \* ---- TestToUpperCaseFromDatabase
    provider,   \* the package variable GetStringFromDatabase
    original,   \* the local variable `original' of the test
    mockRet,    \* the string the mock returns
    mockInput,  \* the argument of ToUpperCaseFromDatabase
    mockPc,     \* where the test is
    mockResult, \* the local variable `result'
    assertFailed, \* whether assert.Equal has failed
    \* ---- Person
    person,     \* the receiver: a nil *Person, or a Person
    personVia,  \* how the method is called: on the pointer or through the interface
    personMethod, \* the method called
    personPc,   \* where the call is
    personRet   \* what the call returned

routineVars == <<amount, output, genPc, i, genVal, emitted, mainPc, n, received, printed>>

fanVars == <<fanAmount, inCh, prodPc, prodI, prodEmitted, fwdPc, fwdVal, wg,
             coordPc, out, fanConsPc, delivered>>

cancelVars == <<ctx, cProdPc, cProdVal, cancPc, cConsPc, number, numPrinted, cancelSeen>>

timerVars == <<now, deadline, armedAt, lastRecv, cSent>>

\* The variables of the examples that use neither the producer of
\* GenerateRandomNumbers, nor the fan-in, nor the select loop over c.
optVars == <<optCh, optPc, optConsPc, optFirst, optSecond, optGot>>
pitVars == <<pitCh, pitPc, pitMainPc, pitWg, pitRecv, pitZeros>>
tsVars == <<tsMap, tsWriter, tsReaders, tsPc, tsOp, tsRet, tsCalls, tsPanics, tsHist>>
onceVars == <<once, oncePc, onceBegun, onceEnded, twice>>
wgVars == <<wgCount, wgPc, wgDeadline, wgNow, wgMainPc>>
syncVars == <<tsVars, onceVars, wgVars>>
restVars == <<timerVars, optVars, pitVars, syncVars>>

closureVars == <<customer, clIdx, clMainPc, clPc, clArg, clPrinted, clWg>>
optionsVars == <<optsArg, conn, optsIdx, connPc, connStr>>
logVars == <<moduleLogger, logs, setHistory, logSteps>>
mockVars == <<provider, original, mockRet, mockInput, mockPc, mockResult, assertFailed>>
personVars == <<person, personVia, personMethod, personPc, personRet>>
lateVars == <<closureVars, optionsVars, logVars, mockVars, personVars>>

vars == <<test, panicked, routineVars, fanVars, cancelVars, restVars, lateVars>>

notRoutine == <<fanVars, cancelVars, restVars, lateVars>>
notFan == <<routineVars, cancelVars, restVars, lateVars>>
notCancel == <<routineVars, fanVars, restVars, lateVars>>
notTimer == <<routineVars, fanVars, optVars, pitVars, syncVars, lateVars>>
notOpt == <<routineVars, fanVars, cancelVars, timerVars, pitVars, syncVars, lateVars>>
notPit == <<routineVars, fanVars, cancelVars, timerVars, optVars, syncVars, lateVars>>
chanVars == <<routineVars, fanVars, cancelVars, timerVars, optVars, pitVars>>
notTs == <<chanVars, onceVars, wgVars, lateVars>>
notOnce == <<chanVars, tsVars, wgVars, lateVars>>
notWg == <<chanVars, tsVars, onceVars, lateVars>>
earlyVars == <<routineVars, fanVars, cancelVars, restVars>>
notClosure == <<earlyVars, optionsVars, logVars, mockVars, personVars>>
notOptions == <<earlyVars, closureVars, logVars, mockVars, personVars>>
notLog == <<earlyVars, closureVars, optionsVars, mockVars, personVars>>
notMock == <<earlyVars, closureVars, optionsVars, logVars, personVars>>
notPerson == <<earlyVars, closureVars, optionsVars, logVars, mockVars>>

-----------------------------------------------------------------------------
(* Channels of the Go runtime, as far as the examples use them: an         *)
(* unbuffered channel hands a value over when a sender and a receiver meet; *)
(* the record keeps what close() changes.                                   *)

\* make(chan int)
MakeChan == [closed |-> FALSE, closes |-> 0, closedBy |-> "none"]

\* A channel variable before make().
NilChan == [closed |-> FALSE, closes |-> 0, closedBy |-> "nil"]

\* close(ch) by goroutine `who'; closing a closed channel panics.
CloseChan(ch, who) ==
    [closed |-> TRUE, closes |-> ch.closes + 1,
     closedBy |-> IF ch.closed THEN ch.closedBy ELSE who]

\* "Closing a closed channel causes a panic"
ClosePanics(ch) == ch.closed

\* "Writing to a closed channel causes a panic"
SendPanics(ch) == ch.closed

\* A receive on a closed channel returns at once with the zero value, ok = false.
RecvClosed(ch) == ch.closed

-----------------------------------------------------------------------------
(* GenerateRandomNumbers(amount) and its consumer TestRoutine.              *)

\* The consumers of GenerateRandomNumbers: TestRoutine, which ranges over the
\* channel to its end, and a consumer that leaves the range loop early.
RoutineTests == {"TestRoutine", "RoutineBreak"}

\* The loop condition with an off-by-one slip: i <= amount.
LoopCondOffByOne(k, amt) == k <= amt

\* The loop condition of the producer: i < amount.
LoopCond(k, amt) == k < amt

\* The producer run in the caller, the `go' forgotten: the caller itself
\* stands at the first send, where no receiver can be.
GenerateRandomNumbersNoGo ==
    /\ test \in RoutineTests
    /\ mainPc = "call"
    /\ output' = IF LoopCond(0, amount) THEN MakeChan ELSE CloseChan(MakeChan, "producer")
    /\ genPc' = "exit"
    /\ i' = 0
    /\ mainPc' = IF LoopCond(0, amount) THEN "inlineSend" ELSE "range"
    /\ UNCHANGED <<test, panicked, amount, genVal, emitted, n, received, printed>>
    /\ UNCHANGED notRoutine

\* c := GenerateRandomNumbers(amount): make the channel, start the goroutine,
\* return the channel.  Nothing of it waits for a receiver.
GenerateRandomNumbers ==
    /\ test \in RoutineTests
    /\ mainPc = "call"
    /\ output' = MakeChan
    /\ genPc' = "loop"
    /\ i' = 0
    /\ mainPc' = "range"
    /\ UNCHANGED <<test, panicked, amount, genVal, emitted, n, received, printed>>
    /\ UNCHANGED notRoutine

\* for i := 0; i < amount; i++ { output <- rand.Int() ...: the loop test and
\* the evaluation of rand.Int(); the goroutine then waits at the send.
GenLoop ==
    /\ test \in RoutineTests
    /\ genPc = "loop"
    /\ panicked = "none"
    /\ IF LoopCond(i, amount)
         THEN \E v \in RandInts :
                /\ genVal' = v
                /\ emitted' = Append(emitted, v)
                /\ genPc' = "send"
         ELSE /\ genPc' = "close"
              /\ UNCHANGED <<genVal, emitted>>
    /\ UNCHANGED <<test, panicked, amount, output, i, mainPc, n, received, printed>>
    /\ UNCHANGED notRoutine

\* A producer that watches for the consumer: when no receiver stands at the
\* channel the send is given up and the loop ends, so the channel is closed.
GenSendOrGiveUp ==
    /\ test \in RoutineTests
    /\ genPc = "send"
    /\ panicked = "none"
    /\ IF mainPc = "stopped"
         THEN /\ genPc' = "close"
              /\ UNCHANGED <<i, mainPc, n, received, panicked>>
         ELSE /\ mainPc = "range"
              /\ n' = genVal
              /\ received' = Append(received, genVal)
              /\ mainPc' = "body"
              /\ i' = i + 1
              /\ genPc' = "loop"
              /\ UNCHANGED panicked
    /\ UNCHANGED <<test, amount, output, genVal, emitted, printed>>
    /\ UNCHANGED notRoutine

\* output <- v meets the receive of `for n := range c': the value is handed
\* over, the producer goes on to i++, the consumer to the loop body.
GenSend ==
    /\ test \in RoutineTests
    /\ genPc = "send"
    /\ panicked = "none"
    /\ IF SendPanics(output)
         THEN /\ panicked' = "send on closed channel"
              /\ genPc' = "panic"
              /\ UNCHANGED <<i, mainPc, n, received>>
         ELSE /\ mainPc = "range"
              /\ n' = genVal
              /\ received' = Append(received, genVal)
              /\ mainPc' = "body"
              /\ i' = i + 1
              /\ genPc' = "loop"
              /\ UNCHANGED panicked
    /\ UNCHANGED <<test, amount, output, genVal, emitted, printed>>
    /\ UNCHANGED notRoutine

\* close(output) after the loop and once more in a deferred call.
GenCloseTwice ==
    /\ test \in RoutineTests
    /\ genPc = "close"
    /\ panicked = "none"
    /\ IF ClosePanics(output)
         THEN /\ panicked' = "close of closed channel"
              /\ genPc' = "panic"
         ELSE /\ genPc' = "close"
              /\ UNCHANGED panicked
    /\ output' = CloseChan(output, "producer")
    /\ UNCHANGED <<test, amount, i, genVal, emitted, mainPc, n, received, printed>>
    /\ UNCHANGED notRoutine

\* close(output) after the loop.
GenClose ==
    /\ test \in RoutineTests
    /\ genPc = "close"
    /\ panicked = "none"
    /\ IF ClosePanics(output)
         THEN /\ panicked' = "close of closed channel"
              /\ genPc' = "panic"
         ELSE /\ genPc' = "exit"
              /\ UNCHANGED panicked
    /\ output' = CloseChan(output, "producer")
    /\ UNCHANGED <<test, amount, i, genVal, emitted, mainPc, n, received, printed>>
    /\ UNCHANGED notRoutine

\* fmt.Println(n)
RoutinePrint ==
    /\ test \in RoutineTests
    /\ mainPc = "body"
    /\ panicked = "none"
    /\ printed' = Append(printed, n)
    /\ mainPc' = "range"
    /\ UNCHANGED <<test, panicked, amount, output, genPc, i, genVal, emitted, n, received>>
    /\ UNCHANGED notRoutine

\* The range loop finds the channel closed and ends; fmt.Println("Done").
RoutineRangeEnd ==
    /\ test \in RoutineTests
    /\ mainPc = "range"
    /\ panicked = "none"
    /\ RecvClosed(output)
    /\ mainPc' = "Done"
    /\ UNCHANGED <<test, panicked, amount, output, genPc, i, genVal, emitted, n, received, printed>>
    /\ UNCHANGED notRoutine

\* A consumer that reads fewer than `amount' values: it leaves the range loop
\* (break) before the channel is closed and receives no more.
RoutineBreak ==
    /\ test = "RoutineBreak"
    /\ mainPc = "range"
    /\ panicked = "none"
    /\ Len(received) < amount
    /\ mainPc' = "stopped"
    /\ UNCHANGED <<test, panicked, amount, output, genPc, i, genVal, emitted, n, received, printed>>
    /\ UNCHANGED notRoutine

-----------------------------------------------------------------------------
(* Fan-in: one producer per input channel, one forwarding goroutine per     *)
(* input channel, all of them writing to the one output channel; a          *)
(* WaitGroup counts the forwarding goroutines, and one goroutine waits for  *)
(* it and closes the output channel.                                        *)

\* The fan-in over producers that end, and the fan-in over producers that
\* never end, which a context cancels.
FanTests == {"FanIn", "FanInCancel"}

\* All forwarding goroutines read the channel of the last producer: the
\* goroutines close over the loop variable instead of taking it as parameter.
InputOfLoopVariable(f) == NumProducers

\* The input channel forwarding goroutine f consumes: its own.
InputOf(f) == f

\* Producer p closes its channel when its loop has ended.
FanProducerClose(p) ==
    /\ test = "FanIn"
    /\ panicked = "none"
    /\ prodPc[p] = "loop"
    /\ ~LoopCond(prodI[p], fanAmount[p])
    /\ IF ClosePanics(inCh[p])
         THEN /\ panicked' = "close of closed channel"
              /\ prodPc' = [prodPc EXCEPT ![p] = "panic"]
         ELSE /\ prodPc' = [prodPc EXCEPT ![p] = "exit"]
              /\ UNCHANGED panicked
    /\ inCh' = [inCh EXCEPT ![p] = CloseChan(@, p)]
    /\ UNCHANGED <<test, fanAmount, prodI, prodEmitted, fwdPc, fwdVal, wg, coordPc, out,
                   fanConsPc, delivered>>
    /\ UNCHANGED notFan

\* Producer p, in its loop, sends the next value of its sequence (the values
\* 1, 2, ... in this order), and the send meets the receive of the
\* `for v := range in' of the forwarding goroutine f that reads p's channel.
FanReceive(f) ==
    /\ test = "FanIn"
    /\ panicked = "none"
    /\ fwdPc[f] = "range"
    /\ LET p == InputOf(f) IN
         /\ prodPc[p] = "loop"
         /\ LoopCond(prodI[p], fanAmount[p])
         /\ ~inCh[p].closed
         /\ prodEmitted' = [prodEmitted EXCEPT ![p] = Append(@, prodI[p] + 1)]
         /\ fwdVal' = [fwdVal EXCEPT ![f] = <<p, prodI[p] + 1>>]
         /\ fwdPc' = [fwdPc EXCEPT ![f] = "forward"]
         /\ prodI' = [prodI EXCEPT ![p] = @ + 1]
    /\ UNCHANGED <<test, panicked, fanAmount, inCh, prodPc, wg, coordPc, out,
                   fanConsPc, delivered>>
    /\ UNCHANGED notFan

\* The forwarding goroutine forwards one value and ends: an `if' for the loop.
FanForwardOnce(f) ==
    /\ test = "FanIn"
    /\ panicked = "none"
    /\ fwdPc[f] = "forward"
    /\ IF SendPanics(out)
         THEN /\ panicked' = "send on closed channel"
              /\ fwdPc' = [fwdPc EXCEPT ![f] = "panic"]
              /\ UNCHANGED <<delivered, wg>>
         ELSE /\ fanConsPc = "range"
              /\ delivered' = Append(delivered, fwdVal[f])
              /\ fwdPc' = [fwdPc EXCEPT ![f] = "exit"]
              /\ wg' = wg - 1
              /\ UNCHANGED panicked
    /\ UNCHANGED <<test, fanAmount, inCh, prodPc, prodI, prodEmitted, fwdVal,
                   coordPc, out, fanConsPc>>
    /\ UNCHANGED notFan

\* out <- v of forwarding goroutine f meets the receive of the consumer's
\* range loop over the output channel.
FanForward(f) ==
    /\ test = "FanIn"
    /\ panicked = "none"
    /\ fwdPc[f] = "forward"
    /\ IF SendPanics(out)
         THEN /\ panicked' = "send on closed channel"
              /\ fwdPc' = [fwdPc EXCEPT ![f] = "panic"]
              /\ UNCHANGED delivered
         ELSE /\ fanConsPc = "range"
              /\ delivered' = Append(delivered, fwdVal[f])
              /\ fwdPc' = [fwdPc EXCEPT ![f] = "range"]
              /\ UNCHANGED panicked
    /\ UNCHANGED <<test, fanAmount, inCh, prodPc, prodI, prodEmitted, fwdVal, wg,
                   coordPc, out, fanConsPc>>
    /\ UNCHANGED notFan

\* The range loop of forwarding goroutine f finds its input closed: the
\* goroutine calls wg.Done() and ends.
FanInputClosed(f) ==
    /\ test = "FanIn"
    /\ panicked = "none"
    /\ fwdPc[f] = "range"
    /\ RecvClosed(inCh[InputOf(f)])
    /\ wg' = wg - 1
    /\ fwdPc' = [fwdPc EXCEPT ![f] = "exit"]
    /\ UNCHANGED <<test, panicked, fanAmount, inCh, prodPc, prodI, prodEmitted, fwdVal,
                   coordPc, out, fanConsPc, delivered>>
    /\ UNCHANGED notFan

\* wg.Wait() returns when the counter is 0; close(out).
FanWaitAndClose ==
    /\ test \in FanTests
    /\ panicked = "none"
    /\ coordPc = "wait"
    /\ wg = 0
    /\ IF ClosePanics(out)
         THEN /\ panicked' = "close of closed channel"
              /\ coordPc' = "panic"
         ELSE /\ coordPc' = "exit"
              /\ UNCHANGED panicked
    /\ out' = CloseChan(out, "coordinator")
    /\ UNCHANGED <<test, fanAmount, inCh, prodPc, prodI, prodEmitted, fwdPc, fwdVal, wg,
                   fanConsPc, delivered>>
    /\ UNCHANGED notFan

\* The consumer's range loop over the output channel finds it closed.
FanConsumerEnd ==
    /\ test \in FanTests
    /\ panicked = "none"
    /\ fanConsPc = "range"
    /\ RecvClosed(out)
    /\ fanConsPc' = "Done"
    /\ UNCHANGED <<test, panicked, fanAmount, inCh, prodPc, prodI, prodEmitted, fwdPc,
                   fwdVal, wg, coordPc, out, delivered>>
    /\ UNCHANGED notFan

-----------------------------------------------------------------------------
(* TestCancellation and TestCancellationWithContext: a goroutine writes     *)
(* random numbers to c for ever, a second one cancels after five seconds,   *)
(* and the test function reads c in a select loop until it is cancelled.    *)
(* TestCancellation signals with a send on the channel `cancel',            *)
(* TestCancellationWithContext with the cancel function of a context.       *)

CancelTests == {"TestCancellation", "TestCancellationWithContext"}

\* context.WithCancel(context.Background()): no error, Done channel open.
ActiveCtx == [err |-> "nil", done |-> MakeChan]

\* cancel() without the test for an earlier call: it closes Done every time.
CancelFnNoGuard(cx) == [err |-> "context canceled", done |-> CloseChan(cx.done, "cancel")]

\* cancel() that records the error and leaves the Done channel open.
CancelFnNoClose(cx) == IF cx.err # "nil" THEN cx ELSE [cx EXCEPT !.err = "context canceled"]

\* cancel(): the first call records the error and closes the Done channel,
\* every later call returns at once.
CancelFn(cx) ==
    IF cx.err # "nil"
      THEN cx
      ELSE [err |-> "context canceled", done |-> CloseChan(cx.done, "cancel")]

\* The context after cancel(): the error set, the Done channel closed once.
CancelledCtx == [err |-> "context canceled", done |-> CloseChan(MakeChan, "cancel")]

\* A Done channel that is never closed, as that of context.Background().
DoneNeverReady(cx) == FALSE

\* case <-ctx.Done() is ready once the Done channel is closed.
DoneReady(cx) == RecvClosed(cx.done)

\* A plain `break' in the cancel case leaves the select, not the loop.
AfterCancelCasePlainBreak == "select"

\* break READ, and the test function goes on to fmt.Println("Done").
AfterCancelCase == "Done"

\* A producer that looks at the cancellation before it evaluates the next
\* number, and ends when it was cancelled.
CancelProdLoopObserving ==
    /\ test \in CancelTests
    /\ panicked = "none"
    /\ cProdPc = "loop"
    /\ IF cancPc = "exit"
         THEN cProdPc' = "exit" /\ UNCHANGED cProdVal
         ELSE \E v \in RandInts : cProdVal' = v /\ cProdPc' = "send"
    /\ UNCHANGED <<test, panicked, ctx, cancPc, cConsPc, number, numPrinted, cancelSeen>>
    /\ UNCHANGED notCancel

\* for { c <- rand.Int() }: the evaluation of rand.Int(); the goroutine then
\* waits at the send.
CancelProdLoop ==
    /\ test \in CancelTests
    /\ panicked = "none"
    /\ cProdPc = "loop"
    /\ \E v \in RandInts : cProdVal' = v
    /\ cProdPc' = "send"
    /\ UNCHANGED <<test, panicked, ctx, cancPc, cConsPc, number, numPrinted, cancelSeen>>
    /\ UNCHANGED notCancel

\* case number := <-c: the send of the producer meets the receive case of the
\* select.
CancelRecvNumber ==
    /\ test \in CancelTests
    /\ panicked = "none"
    /\ cProdPc = "send"
    /\ cConsPc = "select"
    /\ number' = cProdVal
    /\ cConsPc' = "print"
    /\ cProdPc' = "loop"
    /\ UNCHANGED <<test, panicked, ctx, cProdVal, cancPc, numPrinted, cancelSeen>>
    /\ UNCHANGED notCancel

\* fmt.Println(number), and the loop goes round.
CancelPrint ==
    /\ test \in CancelTests
    /\ panicked = "none"
    /\ cConsPc = "print"
    /\ numPrinted' = IF numPrinted < MaxPrinted THEN numPrinted + 1 ELSE numPrinted
    /\ cConsPc' = "select"
    /\ UNCHANGED <<test, panicked, ctx, cProdPc, cProdVal, cancPc, number, cancelSeen>>
    /\ UNCHANGED notCancel

\* <-time.After(time.Second * 5) returns: the five seconds are over.
CancelTimer ==
    /\ test \in CancelTests
    /\ panicked = "none"
    /\ cancPc = "timer"
    /\ cancPc' = "cancel"
    /\ UNCHANGED <<test, panicked, ctx, cProdPc, cProdVal, cConsPc, number, numPrinted, cancelSeen>>
    /\ UNCHANGED notCancel

\* TestCancellation: cancel <- struct{}{} meets case <-cancel of the select.
CancelSignal ==
    /\ test = "TestCancellation"
    /\ panicked = "none"
    /\ cancPc = "cancel"
    /\ cConsPc = "select"
    /\ cancPc' = "exit"
    /\ cConsPc' = AfterCancelCase
    /\ cancelSeen' = TRUE
    /\ UNCHANGED <<test, panicked, ctx, cProdPc, cProdVal, number, numPrinted>>
    /\ UNCHANGED notCancel

\* TestCancellationWithContext: cancel().
CancelCall ==
    /\ test = "TestCancellationWithContext"
    /\ panicked = "none"
    /\ cancPc = "cancel"
    /\ ctx' = CancelFn(ctx)
    /\ IF ctx'.done.closes > 1
         THEN panicked' = "close of closed channel" /\ cancPc' = "panic"
         ELSE cancPc' = "exit" /\ UNCHANGED panicked
    /\ UNCHANGED <<test, cProdPc, cProdVal, cConsPc, number, numPrinted, cancelSeen>>
    /\ UNCHANGED notCancel

\* TestCancellationWithContext: case <-ctx.Done() of the select.
CancelDone ==
    /\ test = "TestCancellationWithContext"
    /\ panicked = "none"
    /\ cConsPc = "select"
    /\ DoneReady(ctx)
    /\ cConsPc' = AfterCancelCase
    /\ cancelSeen' = TRUE
    /\ UNCHANGED <<test, panicked, ctx, cProdPc, cProdVal, cancPc, number, numPrinted>>
    /\ UNCHANGED notCancel

-----------------------------------------------------------------------------
(* The fan-in under cancellation: the producers never stop (as those of the *)
(* cancellation tests), every forwarding goroutine watches the context at   *)
(* its receive and at its send, and a goroutine cancels the context after   *)
(* its timer.                                                               *)

\* Forwarding goroutine f: case v := <-in of its select; the producer of its
\* input sends the next random number.
FcReceive(f) ==
    /\ test = "FanInCancel"
    /\ panicked = "none"
    /\ fwdPc[f] = "range"
    /\ \E v \in RandInts : fwdVal' = [fwdVal EXCEPT ![f] = <<InputOf(f), v>>]
    /\ fwdPc' = [fwdPc EXCEPT ![f] = "forward"]
    /\ UNCHANGED <<test, panicked, fanAmount, inCh, prodPc, prodI, prodEmitted, wg, coordPc,
                   out, fanConsPc, delivered>>
    /\ UNCHANGED <<routineVars, cancelVars, restVars, lateVars>>

\* Forwarding goroutine f: case out <- v of its select meets the receive of
\* the consumer's range loop.
FcForward(f) ==
    /\ test = "FanInCancel"
    /\ panicked = "none"
    /\ fwdPc[f] = "forward"
    /\ IF SendPanics(out)
         THEN /\ panicked' = "send on closed channel"
              /\ fwdPc' = [fwdPc EXCEPT ![f] = "panic"]
              /\ UNCHANGED numPrinted
         ELSE /\ fanConsPc = "range"
              /\ numPrinted' = IF numPrinted < MaxPrinted THEN numPrinted + 1 ELSE numPrinted
              /\ fwdPc' = [fwdPc EXCEPT ![f] = "range"]
              /\ UNCHANGED panicked
    /\ UNCHANGED <<test, fanAmount, inCh, prodPc, prodI, prodEmitted, fwdVal, wg, coordPc,
                   out, fanConsPc, delivered>>
    /\ UNCHANGED <<routineVars, ctx, cProdPc, cProdVal, cancPc, cConsPc, number, cancelSeen,
                   restVars, lateVars>>

\* The forwarding goroutine returns on cancellation without wg.Done().
FcCancelledNoDone(f) ==
    /\ test = "FanInCancel"
    /\ panicked = "none"
    /\ fwdPc[f] \in {"range", "forward"}
    /\ DoneReady(ctx)
    /\ fwdPc' = [fwdPc EXCEPT ![f] = "exit"]
    /\ UNCHANGED <<test, panicked, fanAmount, inCh, prodPc, prodI, prodEmitted, fwdVal, wg,
                   coordPc, out, fanConsPc, delivered>>
    /\ UNCHANGED <<routineVars, cancelVars, restVars, lateVars>>

\* Forwarding goroutine f: case <-ctx.Done() of either select; the goroutine
\* calls wg.Done() and ends.
FcCancelled(f) ==
    /\ test = "FanInCancel"
    /\ panicked = "none"
    /\ fwdPc[f] \in {"range", "forward"}
    /\ DoneReady(ctx)
    /\ wg' = wg - 1
    /\ fwdPc' = [fwdPc EXCEPT ![f] = "exit"]
    /\ UNCHANGED <<test, panicked, fanAmount, inCh, prodPc, prodI, prodEmitted, fwdVal,
                   coordPc, out, fanConsPc, delivered>>
    /\ UNCHANGED <<routineVars, cancelVars, restVars, lateVars>>

\* The timer of the cancelling goroutine fires.
FcTimer ==
    /\ test = "FanInCancel"
    /\ panicked = "none"
    /\ cancPc = "timer"
    /\ cancPc' = "cancel"
    /\ UNCHANGED <<test, panicked, ctx, cProdPc, cProdVal, cConsPc, number, numPrinted, cancelSeen>>
    /\ UNCHANGED <<routineVars, fanVars, restVars, lateVars>>

\* cancel()
FcCancel ==
    /\ test = "FanInCancel"
    /\ panicked = "none"
    /\ cancPc = "cancel"
    /\ ctx' = CancelFn(ctx)
    /\ IF ctx'.done.closes > 1
         THEN panicked' = "close of closed channel" /\ cancPc' = "panic"
         ELSE cancPc' = "exit" /\ UNCHANGED panicked
    /\ UNCHANGED <<test, cProdPc, cProdVal, cConsPc, number, numPrinted, cancelSeen>>
    /\ UNCHANGED <<routineVars, fanVars, restVars, lateVars>>

-----------------------------------------------------------------------------
(* TestFixedTimeout and TestRefreshingTimeout: the READ loop selects between *)
(* a receive from c and a timer of five seconds.  TestFixedTimeout makes    *)
(* the timer once, before the loop, and its producer never stops;           *)
(* TestRefreshingTimeout makes a new timer whenever it enters the select,   *)
(* and its producer sends two numbers.  Time is counted in seconds.         *)

TimeoutTests == {"TestFixedTimeout", "TestRefreshingTimeout"}

\* The timer is made anew at every entry of the select, in either test.
NextDeadlineRefreshing(tst, t, old) == t + Timeout

\* The timer is the one made first, in either test.
NextDeadlineFixed(tst, t, old) == old

\* The timer the select waits for when it is entered at time t:
\* time.After(time.Second * 5) evaluated now, or the channel `timeout' made
\* before the loop.
NextDeadline(tst, t, old) ==
    IF tst = "TestRefreshingTimeout" THEN t + Timeout ELSE old

\* The channel of a timer holds a value once its time has come.
TimerReady(d, t) == t >= d

\* Time passes.
Tick ==
    /\ test \in TimeoutTests
    /\ panicked = "none"
    /\ now < MaxTime \/ now < deadline
    /\ now' = now + 1
    /\ UNCHANGED <<deadline, armedAt, lastRecv, cSent>>
    /\ UNCHANGED <<test, panicked, cancelVars, notTimer>>

\* The producer: for { c <- rand.Int() } in TestFixedTimeout, two sends in
\* TestRefreshingTimeout; the evaluation of rand.Int(), or the end.
TimeoutProdLoop ==
    /\ test \in TimeoutTests
    /\ panicked = "none"
    /\ cProdPc = "loop"
    /\ IF test = "TestRefreshingTimeout" /\ cSent >= RefreshSends
         THEN cProdPc' = "exit" /\ UNCHANGED cProdVal
         ELSE cProdPc' = "send" /\ \E v \in RandInts : cProdVal' = v
    /\ UNCHANGED <<test, panicked, ctx, cancPc, cConsPc, number, numPrinted, cancelSeen>>
    /\ UNCHANGED <<routineVars, fanVars, restVars, lateVars>>

\* case number := <-c meets the send of the producer.
TimeoutRecvNumber ==
    /\ test \in TimeoutTests
    /\ panicked = "none"
    /\ cProdPc = "send"
    /\ cConsPc = "select"
    /\ number' = cProdVal
    /\ cConsPc' = "print"
    /\ cProdPc' = "loop"
    /\ lastRecv' = now
    /\ cSent' = IF test = "TestRefreshingTimeout" THEN cSent + 1 ELSE cSent
    /\ UNCHANGED <<now, deadline, armedAt>>
    /\ UNCHANGED <<test, panicked, ctx, cProdVal, cancPc, numPrinted, cancelSeen>>
    /\ UNCHANGED notTimer

\* fmt.Println(number); the loop goes round and enters the select again.
TimeoutPrint ==
    /\ test \in TimeoutTests
    /\ panicked = "none"
    /\ cConsPc = "print"
    /\ numPrinted' = IF numPrinted < MaxPrinted THEN numPrinted + 1 ELSE numPrinted
    /\ cConsPc' = "select"
    /\ deadline' = NextDeadline(test, now, deadline)
    /\ armedAt' = now
    /\ UNCHANGED <<now, lastRecv, cSent>>
    /\ UNCHANGED <<test, panicked, ctx, cProdPc, cProdVal, cancPc, number, cancelSeen>>
    /\ UNCHANGED notTimer

\* The timeout case of the select: break READ, fmt.Println("Done").
TimeoutCase ==
    /\ test \in TimeoutTests
    /\ panicked = "none"
    /\ cConsPc = "select"
    /\ TimerReady(deadline, now)
    /\ cConsPc' = AfterCancelCase
    /\ cancelSeen' = TRUE
    /\ UNCHANGED <<test, panicked, ctx, cProdPc, cProdVal, cancPc, number, numPrinted>>
    /\ UNCHANGED <<routineVars, fanVars, restVars, lateVars>>

-----------------------------------------------------------------------------
(* TestOptionalWrite: a select with a send case and a default case, once    *)
(* before the consumer routine exists and once after it was started.        *)

\* make(chan int, 1): a channel that buffers one element.
OptMakeChanBuffered == [cap |-> 1, buf |-> <<>>]

\* c := make(chan int): an unbuffered channel.
OptMakeChan == [cap |-> 0, buf |-> <<>>]

\* The element written by `c <- 5' in the select named `which'.
OptElement(which) == [val |-> 5, write |-> which]

\* A send can proceed when a receiver waits on the channel or the buffer
\* has room.
CanSend(ch, waiting) == waiting \/ Len(ch.buf) < ch.cap

\* select { case c <- 5: ... default: ... } takes the send case when the
\* send can proceed, and the default case otherwise.
SelectOutcome(ch, waiting) == IF CanSend(ch, waiting) THEN "sent" ELSE "discarded"

\* The channel after the select: a waiting receiver is handed the element,
\* otherwise a send that proceeds puts it into the buffer.
ChanAfterSelect(ch, waiting, el) ==
    IF CanSend(ch, waiting) /\ ~waiting
      THEN [ch EXCEPT !.buf = Append(@, el)]
      ELSE ch

\* The first select; t.Fatal in the send case.
OptFirstSelect ==
    /\ test = "TestOptionalWrite"
    /\ optPc = "first"
    /\ optFirst' = SelectOutcome(optCh, optConsPc = "recv")
    /\ optCh' = ChanAfterSelect(optCh, optConsPc = "recv", OptElement("first"))
    /\ optPc' = IF optFirst' = "sent" THEN "fatal" ELSE "go"
    /\ IF optConsPc = "recv"
         THEN optConsPc' = "exit" /\ optGot' = OptElement("first")
         ELSE UNCHANGED <<optConsPc, optGot>>
    /\ UNCHANGED <<test, panicked, optSecond, notOpt>>

\* go func() { <-c }()
OptGo ==
    /\ test = "TestOptionalWrite"
    /\ optPc = "go"
    /\ optPc' = "sleep"
    /\ optConsPc' = "started"
    /\ UNCHANGED <<test, panicked, optCh, optFirst, optSecond, optGot, notOpt>>

\* The consumer routine is scheduled and reaches <-c: it takes a buffered
\* element, or waits on the channel.
OptConsumerRecv ==
    /\ test = "TestOptionalWrite"
    /\ optConsPc = "started"
    /\ IF optCh.buf # <<>>
         THEN /\ optGot' = Head(optCh.buf)
              /\ optCh' = [optCh EXCEPT !.buf = Tail(@)]
              /\ optConsPc' = "exit"
         ELSE /\ optConsPc' = "recv"
              /\ UNCHANGED <<optCh, optGot>>
    /\ UNCHANGED <<test, panicked, optPc, optFirst, optSecond, notOpt>>

\* time.Sleep(time.Millisecond) returns; it does not wait for the consumer.
OptSleep ==
    /\ test = "TestOptionalWrite"
    /\ optPc = "sleep"
    /\ optPc' = "second"
    /\ UNCHANGED <<test, panicked, optCh, optConsPc, optFirst, optSecond, optGot, notOpt>>

\* The second select; t.Fatal in the default case.
OptSecondSelect ==
    /\ test = "TestOptionalWrite"
    /\ optPc = "second"
    /\ optSecond' = SelectOutcome(optCh, optConsPc = "recv")
    /\ optCh' = ChanAfterSelect(optCh, optConsPc = "recv", OptElement("second"))
    /\ optPc' = IF optSecond' = "sent" THEN "end" ELSE "fatal"
    /\ IF optConsPc = "recv"
         THEN optConsPc' = "exit" /\ optGot' = OptElement("second")
         ELSE UNCHANGED <<optConsPc, optGot>>
    /\ UNCHANGED <<test, panicked, optFirst, notOpt>>

-----------------------------------------------------------------------------
(* TestClosingChannelPitfall and TestClosingChannelPitfallFixed: a routine  *)
(* reads c in a for/select, the test closes c and waits for the routine.    *)

PitfallTests == {"TestClosingChannelPitfall", "TestClosingChannelPitfallFixed"}

\* What a receive from a closed channel that holds no element returns: the
\* zero value of int, and ok = false.
RecvFromClosed == [value |-> 0, ok |-> FALSE]

\* Neither consumer looks at ok.
AfterRecvIgnoringOk(tst, r) == "print"

\* Both consumers look at ok.
AfterRecvCheckingOk(tst, r) == IF ~r.ok THEN "done" ELSE "print"

\* Where the consumer goes with what it received: `case value := <-c'
\* prints it; `case value, ok := <-c' leaves the loop if !ok.
AfterRecv(tst, r) ==
    IF tst = "TestClosingChannelPitfallFixed" /\ ~r.ok THEN "done" ELSE "print"

\* The receive case of the select.  Nothing is ever sent on c, so the case
\* is ready only once c is closed.
PitRecv ==
    /\ test \in PitfallTests
    /\ panicked = "none"
    /\ pitPc = "select"
    /\ RecvClosed(pitCh)
    /\ pitRecv' = RecvFromClosed
    /\ pitPc' = AfterRecv(test, pitRecv')
    /\ UNCHANGED <<test, panicked, pitCh, pitMainPc, pitWg, pitZeros, notPit>>

\* fmt.Println(value); the loop goes round.
PitPrint ==
    /\ test \in PitfallTests
    /\ panicked = "none"
    /\ pitPc = "print"
    /\ pitZeros' = IF pitZeros < MaxPrinted THEN pitZeros + 1 ELSE pitZeros
    /\ pitPc' = "select"
    /\ UNCHANGED <<test, panicked, pitCh, pitMainPc, pitWg, pitRecv, notPit>>

\* wg.Done() after the loop.
PitDone ==
    /\ test \in PitfallTests
    /\ panicked = "none"
    /\ pitPc = "done"
    /\ pitWg' = pitWg - 1
    /\ pitPc' = "exit"
    /\ UNCHANGED <<test, panicked, pitCh, pitMainPc, pitRecv, pitZeros, notPit>>

\* close(c) in the test routine.
PitClose ==
    /\ test \in PitfallTests
    /\ panicked = "none"
    /\ pitMainPc = "close"
    /\ pitCh' = CloseChan(pitCh, "test")
    /\ panicked' = IF ClosePanics(pitCh) THEN "close of closed channel" ELSE panicked
    /\ pitMainPc' = "wait"
    /\ UNCHANGED <<test, pitPc, pitWg, pitRecv, pitZeros, notPit>>

\* wg.Wait() returns when the counter is 0.
PitWait ==
    /\ test \in PitfallTests
    /\ panicked = "none"
    /\ pitMainPc = "wait"
    /\ pitWg = 0
    /\ pitMainPc' = "returned"
    /\ UNCHANGED <<test, panicked, pitCh, pitPc, pitWg, pitRecv, pitZeros, notPit>>

-----------------------------------------------------------------------------
(* ThreadSafeMap: a map[string]string behind an embedded sync.RWMutex,      *)
(* called by several goroutines.                                            *)

Callers == 1..NumCallers
TsKeys == {"k1"}
TsValues == {"v1", "v2"}
TsMethods == {"Add", "Remove", "Get"}
NoOp == [method |-> "none", key |-> "k1", value |-> ""]

\* The calls: Add(key, value), Remove(key), Get(key).
TsOps ==
    {[method |-> "Add", key |-> k, value |-> v] : k \in TsKeys, v \in TsValues}
      \cup {[method |-> mt, key |-> k, value |-> ""] : mt \in {"Remove", "Get"}, k \in TsKeys}

\* Every method takes the read lock.
LockKindAllRead(method) == "R"

\* Add and Remove call t.Lock(), Get calls t.RLock().
LockKind(method) == IF method = "Get" THEN "R" ELSE "W"

\* Lock() is granted when nobody holds the lock or a read lock; RLock() is
\* granted when nobody holds the lock.
CanLock(kind, writer, readers) ==
    IF kind = "W" THEN writer = 0 /\ readers = {} ELSE writer = 0

\* m[key] of a map that may be nil: the zero value "" if there is no entry.
MapGet(mp, key) == IF mp.isNil \/ mp.m[key] = "absent" THEN "" ELSE mp.m[key]

\* delete(t.m, key) leaves the entry.
MapAfterDeleteKeeps(mp, op) ==
    IF mp.isNil \/ op.method # "Add" THEN mp ELSE [mp EXCEPT !.m[op.key] = op.value]

\* The map after the body of a method: t.m[key] = value sets the entry,
\* delete(t.m, key) removes it; a nil map stays nil.
MapAfter(mp, op) ==
    IF mp.isNil \/ op.method = "Get" THEN mp
    ELSE IF op.method = "Add" THEN [mp EXCEPT !.m[op.key] = op.value]
    ELSE [mp EXCEPT !.m[op.key] = "absent"]

\* No body panics.
BodyNeverPanics(mp, op) == FALSE

\* An assignment to an entry of a nil map panics; delete and a read of a
\* nil map do not.
BodyPanics(mp, op) == mp.isNil /\ op.method = "Add"

\* The unlock is the last statement of the method, not deferred: a panic
\* skips it.
UnlockSkippedOnPanic(hasPanicked) == ~hasPanicked

\* defer t.Unlock() and defer t.RUnlock() run also when the body has panicked.
UnlockRuns(hasPanicked) == TRUE

\* A goroutine calls a method.
TsCall(g) ==
    /\ test = "ThreadSafeMap"
    /\ tsPc[g] = "idle"
    /\ tsCalls < MaxCalls
    /\ \E op \in TsOps : tsOp' = [tsOp EXCEPT ![g] = op]
    /\ tsPc' = [tsPc EXCEPT ![g] = "lock"]
    /\ tsCalls' = tsCalls + 1
    /\ tsPanics' = [tsPanics EXCEPT ![g] = FALSE]
    /\ UNCHANGED <<test, panicked, tsMap, tsWriter, tsReaders, tsRet, tsHist, notTs>>

\* t.Lock() or t.RLock() returns.
TsLock(g) ==
    /\ test = "ThreadSafeMap"
    /\ tsPc[g] = "lock"
    /\ CanLock(LockKind(tsOp[g].method), tsWriter, tsReaders)
    /\ IF LockKind(tsOp[g].method) = "W"
         THEN tsWriter' = g /\ UNCHANGED tsReaders
         ELSE tsReaders' = tsReaders \cup {g} /\ UNCHANGED tsWriter
    /\ tsPc' = [tsPc EXCEPT ![g] = "body"]
    /\ UNCHANGED <<test, panicked, tsMap, tsOp, tsRet, tsCalls, tsPanics, tsHist, notTs>>

\* t.m[key] = value, delete(t.m, key) or return t.m[key].  An assignment
\* to an entry of a nil map panics; delete and a read of a nil map do not.
TsBody(g) ==
    /\ test = "ThreadSafeMap"
    /\ tsPc[g] = "body"
    /\ tsPc' = [tsPc EXCEPT ![g] = "unlock"]
    /\ tsMap' = MapAfter(tsMap, tsOp[g])
    /\ tsPanics' = [tsPanics EXCEPT ![g] = BodyPanics(tsMap, tsOp[g])]
    /\ tsHist' = Append(tsHist, tsOp[g])
    /\ tsRet' = IF tsOp[g].method = "Get"
                  THEN [tsRet EXCEPT ![g] = MapGet(tsMap, tsOp[g].key)]
                  ELSE tsRet
    /\ UNCHANGED <<test, panicked, tsWriter, tsReaders, tsOp, tsCalls, notTs>>

\* The deferred t.Unlock() or t.RUnlock(); it runs also when the body has
\* panicked.  The call is over.
TsUnlock(g) ==
    /\ test = "ThreadSafeMap"
    /\ tsPc[g] = "unlock"
    /\ tsWriter' = IF UnlockRuns(tsPanics[g]) /\ tsWriter = g THEN 0 ELSE tsWriter
    /\ tsReaders' = IF UnlockRuns(tsPanics[g]) THEN tsReaders \ {g} ELSE tsReaders
    /\ tsPc' = [tsPc EXCEPT ![g] = "idle"]
    /\ tsOp' = [tsOp EXCEPT ![g] = NoOp]
    /\ UNCHANGED <<test, panicked, tsMap, tsRet, tsCalls, tsPanics, tsHist, notTs>>

-----------------------------------------------------------------------------
(* TestOnce: myFunc calls once.Do(f) and then prints "See it twice".  The   *)
(* test calls myFunc twice, one call after the other; "OnceConcurrent" is   *)
(* the use the text names, several routines reaching once.Do together.      *)

OnceTests == {"TestOnce", "OnceConcurrent"}
OnceCalls == 1..NumOnceCalls

\* The Once after the function has returned, with the done flag not set.
OnceAfterFForgets(o) == o

\* The Once after the function has returned: done is set.
OnceAfterF(o) == [o EXCEPT !.done = TRUE]

\* myFunc is called.  In TestOnce a call begins when the one before it
\* has returned.
OnceStart(c) ==
    /\ test \in OnceTests
    /\ oncePc[c] = "idle"
    /\ test = "TestOnce" => \A d \in OnceCalls : d < c => oncePc[d] = "ret"
    /\ oncePc' = [oncePc EXCEPT ![c] = "do"]
    /\ UNCHANGED <<test, panicked, once, onceBegun, onceEnded, twice, notOnce>>

\* once.Do: it returns at once if done is set, and takes the mutex of the
\* Once otherwise.
OnceDo(c) ==
    /\ test \in OnceTests
    /\ oncePc[c] = "do"
    /\ oncePc' = [oncePc EXCEPT ![c] = IF once.done THEN "after" ELSE "slow"]
    /\ UNCHANGED <<test, panicked, once, onceBegun, onceEnded, twice, notOnce>>

\* The mutex of the Once is granted; done is looked at again.
OnceLock(c) ==
    /\ test \in OnceTests
    /\ oncePc[c] = "slow"
    /\ once.holder = 0
    /\ once' = [once EXCEPT !.holder = c]
    /\ oncePc' = [oncePc EXCEPT ![c] = IF once.done THEN "release" ELSE "f"]
    /\ UNCHANGED <<test, panicked, onceBegun, onceEnded, twice, notOnce>>

\* The function passed to once.Do begins.
OnceBegin(c) ==
    /\ test \in OnceTests
    /\ oncePc[c] = "f"
    /\ onceBegun' = onceBegun + 1
    /\ oncePc' = [oncePc EXCEPT ![c] = "running"]
    /\ UNCHANGED <<test, panicked, once, onceEnded, twice, notOnce>>

\* fmt.Println("See it only once"); the function returns.
OnceEnd(c) ==
    /\ test \in OnceTests
    /\ oncePc[c] = "running"
    /\ onceEnded' = onceEnded + 1
    /\ once' = OnceAfterF(once)
    /\ oncePc' = [oncePc EXCEPT ![c] = "release"]
    /\ UNCHANGED <<test, panicked, onceBegun, twice, notOnce>>

\* The mutex of the Once is released; once.Do returns.
OnceRelease(c) ==
    /\ test \in OnceTests
    /\ oncePc[c] = "release"
    /\ once' = [once EXCEPT !.holder = 0]
    /\ oncePc' = [oncePc EXCEPT ![c] = "after"]
    /\ UNCHANGED <<test, panicked, onceBegun, onceEnded, twice, notOnce>>

\* fmt.Println("See it twice"); myFunc returns.
OnceTwice(c) ==
    /\ test \in OnceTests
    /\ oncePc[c] = "after"
    /\ twice' = twice + 1
    /\ oncePc' = [oncePc EXCEPT ![c] = "ret"]
    /\ UNCHANGED <<test, panicked, once, onceBegun, onceEnded, notOnce>>

-----------------------------------------------------------------------------
(* TestWaitGroup: two goroutines print, wait for a timer of one and of two  *)
(* seconds, and call wg.Done(); the test routine waits for both.            *)

WgRoutines == {1, 2}

\* wg.Add(2)
WgInitial == 2

\* <-time.After(time.Second) and <-time.After(time.Second * 2), in seconds.
WgSleep(g) == g

\* wg.Wait() returns although one goroutine is still to call wg.Done().
WaitCanReturnEarly(cnt) == cnt <= 1

\* wg.Wait() returns when the counter is 0.
WaitCanReturn(cnt) == cnt = 0

\* fmt.Println("Do something"); time.After makes the timer.
WgPrint(g) ==
    /\ test = "TestWaitGroup"
    /\ panicked = "none"
    /\ wgPc[g] = "print"
    /\ wgDeadline' = [wgDeadline EXCEPT ![g] = wgNow + WgSleep(g)]
    /\ wgPc' = [wgPc EXCEPT ![g] = "sleep"]
    /\ UNCHANGED <<test, panicked, wgCount, wgNow, wgMainPc, notWg>>

\* Time passes while a goroutine waits for its timer.
WgTick ==
    /\ test = "TestWaitGroup"
    /\ panicked = "none"
    /\ \E g \in WgRoutines : wgPc[g] = "sleep" /\ wgNow < wgDeadline[g]
    /\ wgNow' = wgNow + 1
    /\ UNCHANGED <<test, panicked, wgCount, wgPc, wgDeadline, wgMainPc, notWg>>

\* The receive from the channel of the timer returns.
WgTimer(g) ==
    /\ test = "TestWaitGroup"
    /\ panicked = "none"
    /\ wgPc[g] = "sleep"
    /\ TimerReady(wgDeadline[g], wgNow)
    /\ wgPc' = [wgPc EXCEPT ![g] = "done"]
    /\ UNCHANGED <<test, panicked, wgCount, wgDeadline, wgNow, wgMainPc, notWg>>

\* wg.Done(); a counter below 0 panics.
WgDone(g) ==
    /\ test = "TestWaitGroup"
    /\ panicked = "none"
    /\ wgPc[g] = "done"
    /\ wgCount' = wgCount - 1
    /\ panicked' = IF wgCount' < 0 THEN "negative WaitGroup counter" ELSE panicked
    /\ wgPc' = [wgPc EXCEPT ![g] = "exit"]
    /\ UNCHANGED <<test, wgDeadline, wgNow, wgMainPc, notWg>>

\* wg.Wait() returns; fmt.Println("All done").
WgWait ==
    /\ test = "TestWaitGroup"
    /\ panicked = "none"
    /\ wgMainPc = "wait"
    /\ WaitCanReturn(wgCount)
    /\ wgMainPc' = "alldone"
    /\ UNCHANGED <<test, panicked, wgCount, wgPc, wgDeadline, wgNow, notWg>>

-----------------------------------------------------------------------------
(* TestGoRoutineClosurePitfall and TestGoRoutineClosurePitfall_Fixed: a     *)
(* loop over three customers starts one goroutine per customer that prints  *)
(* a name.  In the first test the goroutine reads the loop variable when it *)
(* runs; in the second it prints the parameter it was started with.  The    *)
(* loop variable is one variable for the whole loop, as the text describes; *)
(* the goroutines read it while the loop assigns it.                        *)

ClosureTests == {"TestGoRoutineClosurePitfall", "TestGoRoutineClosurePitfall_Fixed"}

Customers == <<"Avid", "Olav", "Jarl Varg">>
ClRoutines == 1..Len(Customers)

\* Both tests print the loop variable.
NameReadShared(tst, shared, arg) == shared

\* fmt.Println(customer.Name) reads the loop variable; fmt.Println(c.Name)
\* reads the parameter.
NameRead(tst, shared, arg) ==
    IF tst = "TestGoRoutineClosurePitfall_Fixed" THEN arg ELSE shared

\* for _, customer := range customers: the next element is assigned to the
\* loop variable, or the loop ends.
ClLoop ==
    /\ test \in ClosureTests
    /\ clMainPc = "loop"
    /\ IF clIdx < Len(Customers)
         THEN /\ clIdx' = clIdx + 1
              /\ customer' = Customers[clIdx + 1]
              /\ clMainPc' = "go"
         ELSE /\ clMainPc' = "wait"
              /\ UNCHANGED <<clIdx, customer>>
    /\ UNCHANGED <<test, panicked, clPc, clArg, clPrinted, clWg, notClosure>>

\* go func() {...}() or go func(c Customer) {...}(customer): the argument
\* is evaluated at the go statement.
ClGo ==
    /\ test \in ClosureTests
    /\ clMainPc = "go"
    /\ clPc' = [clPc EXCEPT ![clIdx] = "print"]
    /\ clArg' = [clArg EXCEPT ![clIdx] =
                   IF test = "TestGoRoutineClosurePitfall_Fixed" THEN customer ELSE @]
    /\ clMainPc' = "loop"
    /\ UNCHANGED <<test, panicked, customer, clIdx, clPrinted, clWg, notClosure>>

\* fmt.Println of the name.
ClPrint(g) ==
    /\ test \in ClosureTests
    /\ clPc[g] = "print"
    /\ clPrinted' = [clPrinted EXCEPT ![g] = NameRead(test, customer, clArg[g])]
    /\ clPc' = [clPc EXCEPT ![g] = "done"]
    /\ UNCHANGED <<test, panicked, customer, clIdx, clMainPc, clArg, clWg, notClosure>>

\* wg.Done()
ClDone(g) ==
    /\ test \in ClosureTests
    /\ clPc[g] = "done"
    /\ clWg' = clWg - 1
    /\ clPc' = [clPc EXCEPT ![g] = "exit"]
    /\ UNCHANGED <<test, panicked, customer, clIdx, clMainPc, clArg, clPrinted, notClosure>>

\* wg.Wait() returns when the counter is 0.
ClWait ==
    /\ test \in ClosureTests
    /\ clMainPc = "wait"
    /\ clWg = 0
    /\ clMainPc' = "returned"
    /\ UNCHANGED <<test, panicked, customer, clIdx, clPc, clArg, clPrinted, clWg, notClosure>>

-----------------------------------------------------------------------------
(* options: New(opts...) builds the default connection and applies the      *)
(* options to it; ToString formats it.                                      *)

\* conn := &connection{ip: "default", port: 0}
DefaultConn == [ip |-> "default", port |-> 0]

\* WithIP(ip) and WithPort(port): what the returned function sets.
WithIP(ip) == [field |-> "ip", ip |-> ip, port |-> 0]
WithPort(port) == [field |-> "port", ip |-> "", port |-> port]

\* opts[idx](conn): the option sets its field of the connection.
ApplyOption(opt, c) ==
    IF opt.field = "ip" THEN [c EXCEPT !.ip = opt.ip] ELSE [c EXCEPT !.port = opt.port]

\* ToString (the name is taken by the TLC module):
\* fmt.Sprintf("ip: %s, port: %d", c.ip, c.port), as the pieces of the string.
ConnectionToString(c) == <<"ip: ", c.ip, ", port: ", c.port>>

\* The options of the tests, and two more.
OptionChoices == {WithIP("localhost"), WithIP("10.0.0.1"), WithPort(90008), WithPort(80)}
OptionLists == UNION {[1..k -> OptionChoices] : k \in 0..MaxOpts}

\* The loop takes the options from the last to the first.
OptAtReversed(opts, idx) == opts[Len(opts) + 1 - idx]

\* for idx := range opts: the option the loop takes in its idx-th round.
OptAt(opts, idx) == opts[idx]

\* conn := &connection{...}
NewStart ==
    /\ test = "TestOptionsPattern"
    /\ connPc = "new"
    /\ conn' = DefaultConn
    /\ optsIdx' = 0
    /\ connPc' = "loop"
    /\ UNCHANGED <<test, panicked, optsArg, connStr, notOptions>>

\* One round of the loop over opts, or its end and return conn.
NewLoop ==
    /\ test = "TestOptionsPattern"
    /\ connPc = "loop"
    /\ IF optsIdx < Len(optsArg)
         THEN /\ conn' = ApplyOption(OptAt(optsArg, optsIdx + 1), conn)
              /\ optsIdx' = optsIdx + 1
              /\ UNCHANGED connPc
         ELSE /\ connPc' = "ret"
              /\ UNCHANGED <<conn, optsIdx>>
    /\ UNCHANGED <<test, panicked, optsArg, connStr, notOptions>>

\* connection.ToString()
CallToString ==
    /\ test = "TestOptionsPattern"
    /\ connPc = "ret"
    /\ connStr' = ConnectionToString(conn)
    /\ connPc' = "printed"
    /\ UNCHANGED <<test, panicked, optsArg, conn, optsIdx, notOptions>>

-----------------------------------------------------------------------------
(* packagelog: the package variable moduleLogger, SetLogger and             *)
(* MyCoolFunction.                                                          *)

\* The loggers a user of the package passes to SetLogger; "nil" is the
\* nil value of the interface type, which SetLogger accepts as well.
Loggers == {"L1", "L2"}
LoggerArgs == Loggers \cup {"nil"}

\* SetLogger keeps the logger that was set first.
SetLoggerKeepFirst(old, l) == IF old = "noop" THEN l ELSE old

\* moduleLogger = l
SetLoggerValue(old, l) == l

\* SetLogger(l)
SetLogger(l) ==
    /\ test = "TestMyCoolFunction"
    /\ panicked = "none"
    /\ logSteps < MaxLogSteps
    /\ moduleLogger' = SetLoggerValue(moduleLogger, l)
    /\ setHistory' = Append(setHistory, l)
    /\ logSteps' = logSteps + 1
    /\ UNCHANGED <<test, panicked, logs, notLog>>

\* MyCoolFunction(name, age): moduleLogger.Printf(...).  The Printf of the
\* NoopLogger does nothing; a call on the nil interface value panics.
MyCoolFunction ==
    /\ test = "TestMyCoolFunction"
    /\ panicked = "none"
    /\ logSteps < MaxLogSteps
    /\ logs' = IF moduleLogger \in Loggers
                 THEN [logs EXCEPT ![moduleLogger] = @ + 1]
                 ELSE logs
    /\ panicked' = IF moduleLogger = "nil" THEN "nil pointer dereference" ELSE panicked
    /\ logSteps' = logSteps + 1
    /\ UNCHANGED <<test, moduleLogger, setHistory, notLog>>

-----------------------------------------------------------------------------
(* mocking: the provider variable GetStringFromDatabase, the function       *)
(* ToUpperCaseFromDatabase and the test that mocks the provider.  A string  *)
(* is the sequence of its characters.                                       *)

LowerLetters == <<"a", "b", "c", "k", "m", "o">>
UpperLetters == <<"A", "B", "C", "K", "M", "O">>

\* strings.ToUpper: a lower-case letter becomes its upper-case letter, any
\* other character stays.
UpperChar(ch) ==
    IF \E k \in 1..Len(LowerLetters) : LowerLetters[k] = ch
      THEN UpperLetters[CHOOSE k \in 1..Len(LowerLetters) : LowerLetters[k] = ch]
      ELSE ch

ToUpper(str) == [k \in 1..Len(str) |-> UpperChar(str[k])]

\* The strings a mock returns: "mock", "aB" and "".
MockReturns == {<<"m", "o", "c", "k">>, <<"a", "B">>, <<>>}

\* GetStringFromDatabase(entityId): the production code returns "", the
\* mock its string.
GetStringFromDatabase(p, ret, entityId) == IF p = "mock" THEN ret ELSE <<>>

\* ToUpperCaseFromDatabase(input)
ToUpperCaseFromDatabase(p, ret, input) == ToUpper(GetStringFromDatabase(p, ret, input))

\* The deferred function leaves the provider as it is.
RestoredProviderKeepsMock(orig, cur) == cur

\* mocking.GetStringFromDatabase = original
RestoredProvider(orig, cur) == orig

\* original := mocking.GetStringFromDatabase; defer func() {...}()
MockSave ==
    /\ test = "TestToUpperCaseFromDatabase"
    /\ mockPc = "save"
    /\ original' = provider
    /\ mockPc' = "install"
    /\ UNCHANGED <<test, panicked, provider, mockRet, mockInput, mockResult, assertFailed, notMock>>

\* mocking.GetStringFromDatabase = func(string) string { return "mock" }
MockInstall ==
    /\ test = "TestToUpperCaseFromDatabase"
    /\ mockPc = "install"
    /\ provider' = "mock"
    /\ mockPc' = "call"
    /\ UNCHANGED <<test, panicked, original, mockRet, mockInput, mockResult, assertFailed, notMock>>

\* result := mocking.ToUpperCaseFromDatabase("abc")
MockCall ==
    /\ test = "TestToUpperCaseFromDatabase"
    /\ mockPc = "call"
    /\ mockResult' = ToUpperCaseFromDatabase(provider, mockRet, mockInput)
    /\ mockPc' = "assert"
    /\ UNCHANGED <<test, panicked, provider, original, mockRet, mockInput, assertFailed, notMock>>

\* assert.Equal(t, "MOCK", result): a failure is recorded and the test goes on.
MockAssert ==
    /\ test = "TestToUpperCaseFromDatabase"
    /\ mockPc = "assert"
    /\ assertFailed' = (mockResult # <<"M", "O", "C", "K">>)
    /\ mockPc' = "deferred"
    /\ UNCHANGED <<test, panicked, provider, original, mockRet, mockInput, mockResult, notMock>>

\* The test function returns and the deferred function runs.
MockRestore ==
    /\ test = "TestToUpperCaseFromDatabase"
    /\ mockPc = "deferred"
    /\ provider' = RestoredProvider(original, provider)
    /\ mockPc' = "end"
    /\ UNCHANGED <<test, panicked, original, mockRet, mockInput, mockResult, assertFailed, notMock>>

-----------------------------------------------------------------------------
(* Person and PersonInterface.                                              *)

\* var person *mocking.Person
NilPerson == [isNil |-> TRUE, Name |-> "", LastName |-> ""]

\* What a call gives: a panic, or the string returned.
Returned(str) == [panic |-> FALSE, ret |-> str]
Panics == [panic |-> TRUE, ret |-> ""]

\* The receivers: nil, &Person{Name: "Paul"}, and a Person with both names.
Persons ==
    {NilPerson,
     [isNil |-> FALSE, Name |-> "Paul", LastName |-> ""],
     [isNil |-> FALSE, Name |-> "Paul", LastName |-> "Smith"]}

\* PrintName without the nil check: m.Name of a nil pointer panics.
PrintNameNoNilCheck(m) == IF m.isNil THEN Panics ELSE Returned(m.Name)

\* func (m *Person) PrintName() string
PrintName(m) == IF m.isNil THEN Returned("") ELSE Returned(m.Name)

\* func (m *Person) PrintLastName() string
PrintLastName(m) == IF m.isNil THEN Returned("") ELSE Returned(m.LastName)

\* A method call: through an interface value that holds no implementation
\* it panics; otherwise the method of *Person runs with its receiver.
CallMethod(via, method, m) ==
    IF via = "nilInterface" THEN Panics
    ELSE IF method = "PrintName" THEN PrintName(m) ELSE PrintLastName(m)

\* person.PrintName(), person.PrintLastName(), personInterface.PrintName()
PersonCall ==
    /\ test = "TestPerson_PrintName"
    /\ personPc = "call"
    /\ personRet' = CallMethod(personVia, personMethod, person)
    /\ panicked' = IF personRet'.panic THEN "nil pointer dereference" ELSE panicked
    /\ personPc' = "ret"
    /\ UNCHANGED <<test, person, personVia, personMethod, notPerson>>

-----------------------------------------------------------------------------
(* The state each example starts in, and the state its variables keep while *)
(* another example runs.                                                    *)

RoutineInit ==
    /\ amount \in 0..MaxAmount
    /\ output = NilChan
    /\ genPc = "notstarted"
    /\ i = 0
    /\ genVal = 0
    /\ emitted = <<>>
    /\ mainPc = "call"
    /\ n = 0
    /\ received = <<>>
    /\ printed = <<>>

RoutineIdle ==
    /\ amount = 0
    /\ output = NilChan
    /\ genPc = "notstarted"
    /\ i = 0
    /\ genVal = 0
    /\ emitted = <<>>
    /\ mainPc = "idle"
    /\ n = 0
    /\ received = <<>>
    /\ printed = <<>>

\* The fan-in once it is set up: wg.Add(N), all goroutines started.
FanInit ==
    /\ fanAmount \in [Producers -> 0..MaxFanAmount]
    /\ inCh = [p \in Producers |-> MakeChan]
    /\ prodPc = [p \in Producers |-> "loop"]
    /\ prodI = [p \in Producers |-> 0]
    /\ prodEmitted = [p \in Producers |-> <<>>]
    /\ fwdPc = [p \in Producers |-> "range"]
    /\ fwdVal = [p \in Producers |-> <<p, 0>>]
    /\ wg = NumProducers
    /\ coordPc = "wait"
    /\ out = MakeChan
    /\ fanConsPc = "range"
    /\ delivered = <<>>

FanIdle ==
    /\ fanAmount = <<>>
    /\ inCh = <<>>
    /\ prodPc = <<>>
    /\ prodI = <<>>
    /\ prodEmitted = <<>>
    /\ fwdPc = <<>>
    /\ fwdVal = <<>>
    /\ wg = 0
    /\ coordPc = "idle"
    /\ out = NilChan
    /\ fanConsPc = "idle"
    /\ delivered = <<>>

\* The cancellation tests once their goroutines are started.
CancelInit ==
    /\ ctx = ActiveCtx
    /\ cProdPc = "loop"
    /\ cProdVal = 0
    /\ cancPc = "timer"
    /\ cConsPc = "select"
    /\ number = 0
    /\ numPrinted = 0
    /\ cancelSeen = FALSE

CancelIdle ==
    /\ ctx = ActiveCtx
    /\ cProdPc = "idle"
    /\ cProdVal = 0
    /\ cancPc = "idle"
    /\ cConsPc = "idle"
    /\ number = 0
    /\ numPrinted = 0
    /\ cancelSeen = FALSE

\* The cancellable fan-in once it is set up.
FcInit ==
    /\ fanAmount = [p \in Producers |-> 0]
    /\ inCh = [p \in Producers |-> MakeChan]
    /\ prodPc = [p \in Producers |-> "loop"]
    /\ prodI = [p \in Producers |-> 0]
    /\ prodEmitted = [p \in Producers |-> <<>>]
    /\ fwdPc = [p \in Producers |-> "range"]
    /\ fwdVal = [p \in Producers |-> <<p, 0>>]
    /\ wg = NumProducers
    /\ coordPc = "wait"
    /\ out = MakeChan
    /\ fanConsPc = "range"
    /\ delivered = <<>>
    /\ ctx = ActiveCtx
    /\ cProdPc = "idle"
    /\ cProdVal = 0
    /\ cancPc = "timer"
    /\ cConsPc = "idle"
    /\ number = 0
    /\ numPrinted = 0
    /\ cancelSeen = FALSE

\* The timeout tests at their start: the timer made at time 0.
TimerInit ==
    /\ now = 0
    /\ deadline = Timeout
    /\ armedAt = 0
    /\ lastRecv = 0
    /\ cSent = 0

TimerIdle ==
    /\ now = 0
    /\ deadline = 0
    /\ armedAt = 0
    /\ lastRecv = 0
    /\ cSent = 0

\* The producer and the READ loop of a timeout test; there is no context
\* and no cancelling goroutine.
TimeoutLoopInit ==
    /\ ctx = ActiveCtx
    /\ cProdPc = "loop"
    /\ cProdVal = 0
    /\ cancPc = "idle"
    /\ cConsPc = "select"
    /\ number = 0
    /\ numPrinted = 0
    /\ cancelSeen = FALSE

\* TestOptionalWrite at its start: c made, no consumer routine.
OptInit ==
    /\ optCh = OptMakeChan
    /\ optPc = "first"
    /\ optConsPc = "none"
    /\ optFirst = "none"
    /\ optSecond = "none"
    /\ optGot = [val |-> 0, write |-> "none"]

OptIdle ==
    /\ optCh = OptMakeChan
    /\ optPc = "idle"
    /\ optConsPc = "none"
    /\ optFirst = "none"
    /\ optSecond = "none"
    /\ optGot = [val |-> 0, write |-> "none"]

\* The pitfall tests after wg.Add(1) and the go statement.
PitInit ==
    /\ pitCh = MakeChan
    /\ pitPc = "select"
    /\ pitMainPc = "close"
    /\ pitWg = 1
    /\ pitRecv = [value |-> 0, ok |-> TRUE]
    /\ pitZeros = 0

PitIdle ==
    /\ pitCh = NilChan
    /\ pitPc = "idle"
    /\ pitMainPc = "idle"
    /\ pitWg = 0
    /\ pitRecv = [value |-> 0, ok |-> TRUE]
    /\ pitZeros = 0

\* A ThreadSafeMap: made by a user of the package, its map is nil; the
\* methods can also meet a map that was made.  Nobody holds the lock.
TsInit ==
    /\ tsMap \in {[isNil |-> b, m |-> [k \in TsKeys |-> "absent"]] : b \in BOOLEAN}
    /\ tsWriter = 0
    /\ tsReaders = {}
    /\ tsPc = [g \in Callers |-> "idle"]
    /\ tsOp = [g \in Callers |-> NoOp]
    /\ tsRet = [g \in Callers |-> ""]
    /\ tsCalls = 0
    /\ tsPanics = [g \in Callers |-> FALSE]
    /\ tsHist = <<>>

TsIdle ==
    /\ tsMap = [isNil |-> TRUE, m |-> [k \in TsKeys |-> "absent"]]
    /\ tsWriter = 0
    /\ tsReaders = {}
    /\ tsPc = [g \in Callers |-> "idle"]
    /\ tsOp = [g \in Callers |-> NoOp]
    /\ tsRet = [g \in Callers |-> ""]
    /\ tsCalls = 0
    /\ tsPanics = [g \in Callers |-> FALSE]
    /\ tsHist = <<>>

\* once := sync.Once{}
OnceInit ==
    /\ once = [done |-> FALSE, holder |-> 0]
    /\ oncePc = [c \in OnceCalls |-> "idle"]
    /\ onceBegun = 0
    /\ onceEnded = 0
    /\ twice = 0

OnceIdle ==
    /\ once = [done |-> FALSE, holder |-> 0]
    /\ oncePc = [c \in OnceCalls |-> "none"]
    /\ onceBegun = 0
    /\ onceEnded = 0
    /\ twice = 0

\* TestWaitGroup after wg.Add(2) and the two go statements.
WgInit ==
    /\ wgCount = WgInitial
    /\ wgPc = [g \in WgRoutines |-> "print"]
    /\ wgDeadline = [g \in WgRoutines |-> 0]
    /\ wgNow = 0
    /\ wgMainPc = "wait"

WgIdle ==
    /\ wgCount = 0
    /\ wgPc = [g \in WgRoutines |-> "none"]
    /\ wgDeadline = [g \in WgRoutines |-> 0]
    /\ wgNow = 0
    /\ wgMainPc = "idle"

SyncIdle == TsIdle /\ OnceIdle /\ WgIdle

\* The closure tests after wg.Add(3), before the loop.
ClosureInit ==
    /\ customer = ""
    /\ clIdx = 0
    /\ clMainPc = "loop"
    /\ clPc = [g \in ClRoutines |-> "none"]
    /\ clArg = [g \in ClRoutines |-> ""]
    /\ clPrinted = [g \in ClRoutines |-> ""]
    /\ clWg = ClWgInitial

ClosureIdle ==
    /\ customer = ""
    /\ clIdx = 0
    /\ clMainPc = "idle"
    /\ clPc = [g \in ClRoutines |-> "none"]
    /\ clArg = [g \in ClRoutines |-> ""]
    /\ clPrinted = [g \in ClRoutines |-> ""]
    /\ clWg = 0

\* A call of options.New with some options.
OptionsInit ==
    /\ optsArg \in OptionLists
    /\ conn = [ip |-> "", port |-> 0]
    /\ optsIdx = 0
    /\ connPc = "new"
    /\ connStr = <<>>

OptionsIdle ==
    /\ optsArg = <<>>
    /\ conn = [ip |-> "", port |-> 0]
    /\ optsIdx = 0
    /\ connPc = "idle"
    /\ connStr = <<>>

\* var moduleLogger Logger = NoopLogger{}.  The package variable has this
\* value also while no test of the package runs.
LogInit ==
    /\ moduleLogger = "noop"
    /\ logs = [l \in Loggers |-> 0]
    /\ setHistory = <<>>
    /\ logSteps = 0

LogIdle ==
    /\ moduleLogger = "noop"
    /\ logs = [l \in Loggers |-> 0]
    /\ setHistory = <<>>
    /\ logSteps = 0

\* TestToUpperCaseFromDatabase at its start.  The mock of the test returns
\* "mock"; other strings stand for mocks that make the assertion fail.
MockInit ==
    /\ provider = "original"
    /\ original = "unset"
    /\ mockRet \in MockReturns
    /\ mockInput \in {"abc", "xyz"}
    /\ mockPc = "save"
    /\ mockResult = <<>>
    /\ assertFailed = FALSE

MockIdle ==
    /\ provider = "original"
    /\ original = "unset"
    /\ mockRet = <<>>
    /\ mockInput = ""
    /\ mockPc = "idle"
    /\ mockResult = <<>>
    /\ assertFailed = FALSE

\* A call of PrintName or PrintLastName: on a *Person, through a
\* PersonInterface that holds the *Person, or through a PersonInterface
\* that holds nothing.
PersonInit ==
    /\ person \in Persons
    /\ personVia \in {"pointer", "interface", "nilInterface"}
    /\ personMethod \in {"PrintName", "PrintLastName"}
    /\ personPc = "call"
    /\ personRet = Returned("")

PersonIdle ==
    /\ person = NilPerson
    /\ personVia = "pointer"
    /\ personMethod = "PrintName"
    /\ personPc = "idle"
    /\ personRet = Returned("")

ApiIdle == OptionsIdle /\ LogIdle /\ MockIdle /\ PersonIdle

LateIdle == ClosureIdle /\ ApiIdle

\* The examples that do not run.
RestIdle == TimerIdle /\ OptIdle /\ PitIdle /\ SyncIdle

-----------------------------------------------------------------------------
(* TestRoutine.                                                             *)

InitRoutine ==
    /\ test = "TestRoutine"
    /\ panicked = "none"
    /\ RoutineInit
    /\ FanIdle
    /\ CancelIdle
    /\ RestIdle
    /\ LateIdle

NextRoutine ==
    \/ GenerateRandomNumbers
    \/ GenLoop
    \/ GenSend
    \/ GenClose
    \/ RoutinePrint
    \/ RoutineRangeEnd

SpecRoutine == InitRoutine /\ [][NextRoutine]_vars

\* The Go scheduler runs every goroutine that can take a step.
RoutineFairness ==
    /\ WF_vars(GenerateRandomNumbers)
    /\ WF_vars(GenLoop)
    /\ WF_vars(GenSend)
    /\ WF_vars(GenClose)
    /\ WF_vars(RoutinePrint)
    /\ WF_vars(RoutineRangeEnd)

FairRoutine == SpecRoutine /\ RoutineFairness

(* The fan-in.                                                              *)

InitFanIn ==
    /\ test = "FanIn"
    /\ panicked = "none"
    /\ RoutineIdle
    /\ FanInit
    /\ CancelIdle
    /\ RestIdle
    /\ LateIdle

NextFanIn ==
    \/ \E p \in Producers : FanProducerClose(p)
    \/ \E f \in Producers : FanReceive(f)
    \/ \E f \in Producers : FanForward(f)
    \/ \E f \in Producers : FanInputClosed(f)
    \/ FanWaitAndClose
    \/ FanConsumerEnd

SpecFanIn == InitFanIn /\ [][NextFanIn]_vars

(* The fan-in under cancellation.                                           *)

InitFanCancel ==
    /\ test = "FanInCancel"
    /\ panicked = "none"
    /\ RoutineIdle
    /\ FcInit
    /\ RestIdle
    /\ LateIdle

NextFanCancel ==
    \/ \E f \in Producers : FcReceive(f)
    \/ \E f \in Producers : FcForward(f)
    \/ \E f \in Producers : FcCancelled(f)
    \/ FcTimer
    \/ FcCancel
    \/ FanWaitAndClose
    \/ FanConsumerEnd

SpecFanCancel == InitFanCancel /\ [][NextFanCancel]_vars

\* Every goroutine that can take a step is run, and a select takes a case
\* that is ready again and again.
FanCancelFairness ==
    /\ \A f \in Producers : WF_vars(FcReceive(f))
    /\ \A f \in Producers : WF_vars(FcForward(f))
    /\ \A f \in Producers : SF_vars(FcCancelled(f))
    /\ WF_vars(FcTimer)
    /\ WF_vars(FcCancel)
    /\ WF_vars(FanWaitAndClose)
    /\ WF_vars(FanConsumerEnd)

FairFanCancel == SpecFanCancel /\ FanCancelFairness

(* The cancellation tests.                                                  *)

InitCancel ==
    /\ test \in CancelTests
    /\ panicked = "none"
    /\ RoutineIdle
    /\ FanIdle
    /\ CancelInit
    /\ RestIdle
    /\ LateIdle

NextCancel ==
    \/ CancelProdLoop
    \/ CancelRecvNumber
    \/ CancelPrint
    \/ CancelTimer
    \/ CancelSignal
    \/ CancelCall
    \/ CancelDone

SpecCancel == InitCancel /\ [][NextCancel]_vars

\* The scheduler runs every goroutine that can take a step, and time passes;
\* a select chooses at random among its ready cases, so a case that is ready
\* again and again is taken at some time.
CancelFairness ==
    /\ WF_vars(CancelProdLoop)
    /\ WF_vars(CancelPrint)
    /\ WF_vars(CancelTimer)
    /\ WF_vars(CancelCall)
    /\ SF_vars(CancelRecvNumber)
    /\ SF_vars(CancelSignal)
    /\ SF_vars(CancelDone)

FairCancel == SpecCancel /\ CancelFairness

(* The timeout tests, TestOptionalWrite and the pitfall tests.               *)

ChanTests == TimeoutTests \cup {"TestOptionalWrite"} \cup PitfallTests

InitChanTests ==
    /\ test \in ChanTests
    /\ panicked = "none"
    /\ RoutineIdle
    /\ FanIdle
    /\ IF test \in TimeoutTests THEN TimeoutLoopInit /\ TimerInit ELSE CancelIdle /\ TimerIdle
    /\ IF test = "TestOptionalWrite" THEN OptInit ELSE OptIdle
    /\ IF test \in PitfallTests THEN PitInit ELSE PitIdle
    /\ SyncIdle
    /\ LateIdle

NextChanTests ==
    \/ Tick
    \/ TimeoutProdLoop
    \/ TimeoutRecvNumber
    \/ TimeoutPrint
    \/ TimeoutCase
    \/ OptFirstSelect
    \/ OptGo
    \/ OptConsumerRecv
    \/ OptSleep
    \/ OptSecondSelect
    \/ PitRecv
    \/ PitPrint
    \/ PitDone
    \/ PitClose
    \/ PitWait

SpecChanTests == InitChanTests /\ [][NextChanTests]_vars

\* Time passes, every goroutine that can take a step is run, and a select
\* takes a case that is ready again and again.
ChanTestsFairness ==
    /\ WF_vars(Tick)
    /\ WF_vars(TimeoutProdLoop)
    /\ WF_vars(TimeoutPrint)
    /\ SF_vars(TimeoutRecvNumber)
    /\ SF_vars(TimeoutCase)
    /\ WF_vars(OptFirstSelect)
    /\ WF_vars(OptGo)
    /\ WF_vars(OptConsumerRecv)
    /\ WF_vars(OptSleep)
    /\ WF_vars(OptSecondSelect)
    /\ WF_vars(PitRecv)
    /\ WF_vars(PitPrint)
    /\ WF_vars(PitDone)
    /\ WF_vars(PitClose)
    /\ WF_vars(PitWait)

FairChanTests == SpecChanTests /\ ChanTestsFairness

(* The examples of the sync package.                                        *)

SyncTests == {"ThreadSafeMap", "TestWaitGroup"} \cup OnceTests

InitSync ==
    /\ test \in SyncTests
    /\ panicked = "none"
    /\ RoutineIdle
    /\ FanIdle
    /\ CancelIdle
    /\ TimerIdle
    /\ OptIdle
    /\ PitIdle
    /\ IF test = "ThreadSafeMap" THEN TsInit ELSE TsIdle
    /\ IF test \in OnceTests THEN OnceInit ELSE OnceIdle
    /\ IF test = "TestWaitGroup" THEN WgInit ELSE WgIdle
    /\ LateIdle

NextSync ==
    \/ \E g \in Callers : TsCall(g)
    \/ \E g \in Callers : TsLock(g)
    \/ \E g \in Callers : TsBody(g)
    \/ \E g \in Callers : TsUnlock(g)
    \/ \E c \in OnceCalls : OnceStart(c)
    \/ \E c \in OnceCalls : OnceDo(c)
    \/ \E c \in OnceCalls : OnceLock(c)
    \/ \E c \in OnceCalls : OnceBegin(c)
    \/ \E c \in OnceCalls : OnceEnd(c)
    \/ \E c \in OnceCalls : OnceRelease(c)
    \/ \E c \in OnceCalls : OnceTwice(c)
    \/ \E g \in WgRoutines : WgPrint(g)
    \/ WgTick
    \/ \E g \in WgRoutines : WgTimer(g)
    \/ \E g \in WgRoutines : WgDone(g)
    \/ WgWait

SpecSync == InitSync /\ [][NextSync]_vars

\* Time passes and every goroutine that can take a step is run.
SyncFairness ==
    /\ \A g \in Callers : WF_vars(TsLock(g)) /\ WF_vars(TsBody(g)) /\ WF_vars(TsUnlock(g))
    /\ \A c \in OnceCalls :
         /\ WF_vars(OnceStart(c)) /\ WF_vars(OnceDo(c)) /\ WF_vars(OnceLock(c))
         /\ WF_vars(OnceBegin(c)) /\ WF_vars(OnceEnd(c))
         /\ WF_vars(OnceRelease(c)) /\ WF_vars(OnceTwice(c))
    /\ \A g \in WgRoutines : WF_vars(WgPrint(g)) /\ WF_vars(WgTimer(g)) /\ WF_vars(WgDone(g))
    /\ WF_vars(WgTick)
    /\ WF_vars(WgWait)

FairSync == SpecSync /\ SyncFairness

(* The closure tests.                                                       *)

InitClosure ==
    /\ test \in ClosureTests
    /\ panicked = "none"
    /\ RoutineIdle
    /\ FanIdle
    /\ CancelIdle
    /\ RestIdle
    /\ ClosureInit
    /\ ApiIdle

NextClosure ==
    \/ ClLoop
    \/ ClGo
    \/ \E g \in ClRoutines : ClPrint(g)
    \/ \E g \in ClRoutines : ClDone(g)
    \/ ClWait

SpecClosure == InitClosure /\ [][NextClosure]_vars

\* Every goroutine that can take a step is run.
ClosureFairness ==
    /\ WF_vars(ClLoop)
    /\ WF_vars(ClGo)
    /\ \A g \in ClRoutines : WF_vars(ClPrint(g)) /\ WF_vars(ClDone(g))
    /\ WF_vars(ClWait)

FairClosure == SpecClosure /\ ClosureFairness

(* The examples of options, packagelog and mocking.                         *)

ApiTests ==
    {"TestOptionsPattern", "TestMyCoolFunction", "TestToUpperCaseFromDatabase",
     "TestPerson_PrintName"}

InitApi ==
    /\ test \in ApiTests
    /\ panicked = "none"
    /\ RoutineIdle
    /\ FanIdle
    /\ CancelIdle
    /\ RestIdle
    /\ ClosureIdle
    /\ IF test = "TestOptionsPattern" THEN OptionsInit ELSE OptionsIdle
    /\ IF test = "TestMyCoolFunction" THEN LogInit ELSE LogIdle
    /\ IF test = "TestToUpperCaseFromDatabase" THEN MockInit ELSE MockIdle
    /\ IF test = "TestPerson_PrintName" THEN PersonInit ELSE PersonIdle

NextApi ==
    \/ NewStart
    \/ NewLoop
    \/ CallToString
    \/ \E l \in LoggerArgs : SetLogger(l)
    \/ MyCoolFunction
    \/ MockSave
    \/ MockInstall
    \/ MockCall
    \/ MockAssert
    \/ MockRestore
    \/ PersonCall

SpecApi == InitApi /\ [][NextApi]_vars

-----------------------------------------------------------------------------
(* The producers whose consumer can stop first: TestCancellation,           *)
(* TestCancellationWithContext, TestFixedTimeout, and GenerateRandomNumbers *)
(* with a consumer that leaves the range loop early.                        *)

InitFixedTimeout ==
    /\ test = "TestFixedTimeout"
    /\ InitChanTests

InitRoutineBreak ==
    /\ test = "RoutineBreak"
    /\ panicked = "none"
    /\ RoutineInit
    /\ FanIdle
    /\ CancelIdle
    /\ RestIdle
    /\ LateIdle

InitProducers == InitCancel \/ InitFixedTimeout \/ InitRoutineBreak

NextProducers ==
    \/ NextCancel
    \/ Tick
    \/ TimeoutProdLoop
    \/ TimeoutRecvNumber
    \/ TimeoutPrint
    \/ TimeoutCase
    \/ NextRoutine
    \/ RoutineBreak

SpecProducers == InitProducers /\ [][NextProducers]_vars

\* The fairness of each example; whether and when the consumer of
\* GenerateRandomNumbers leaves its loop is up to the consumer.
ProducersFairness ==
    /\ CancelFairness
    /\ ChanTestsFairness
    /\ RoutineFairness

FairProducers == SpecProducers /\ ProducersFairness

-----------------------------------------------------------------------------
(* Claims about GenerateRandomNumbers and TestRoutine.                      *)

IsPrefix(s, t) == Len(s) <= Len(t) /\ SubSeq(t, 1, Len(s)) = s

\* C1: a consumer that drains the channel of GenerateRandomNumbers(amount)
\* receives exactly `amount' values, in the order the producer sent them, and
\* only then the closed indication; for amount = 0 it receives no value.
C1_DrainReceivesAmount ==
    test = "TestRoutine" =>
        /\ IsPrefix(received, emitted)
        /\ Len(received) <= amount
        /\ mainPc = "Done" =>
              /\ Len(received) = amount
              /\ received = emitted
              /\ output.closed

C1_Witness ==
    /\ test = "TestRoutine"
    /\ mainPc = "Done"
    /\ amount >= 2
    /\ Len(received) = amount
    /\ received[1] # received[2]

\* C2: the output channel is closed at most once, only by the producer
\* goroutine, and no send is attempted on it once it is closed: neither
\* panic of the runtime is reachable.
C2_ClosedOnceByProducer ==
    test = "TestRoutine" =>
        /\ output.closes <= 1
        /\ output.closed => output.closedBy = "producer"
        /\ genPc = "send" => ~output.closed
        /\ panicked = "none"

C2_Witness ==
    /\ test = "TestRoutine"
    /\ genPc = "exit"
    /\ output.closes = 1
    /\ Len(emitted) > 0

\* C3: GenerateRandomNumbers returns without waiting for a receiver (the call
\* can always be taken, and returns before anything was sent), and the range
\* loop of the consumer ends ("Done") for every amount, under fair scheduling.
C3_ReturnsAtOnceAndConsumerEnds ==
    /\ [](test = "TestRoutine" /\ mainPc = "call" => ENABLED GenerateRandomNumbers)
    /\ [][test = "TestRoutine" /\ mainPc = "call" /\ mainPc' # "call"
            => mainPc' = "range" /\ emitted' = <<>> /\ received' = <<>>]_vars
    /\ (test = "TestRoutine" ~> mainPc = "Done")

C3_Witness ==
    /\ test = "TestRoutine"
    /\ mainPc = "Done"
    /\ genPc = "exit"
    /\ amount = MaxAmount

-----------------------------------------------------------------------------
(* Claims about the fan-in.                                                 *)

\* How often e occurs in the sequence s.
CountIn(s, e) == Cardinality({k \in DOMAIN s : s[k] = e})

\* The values of producer p in the sequence of delivered pairs, in its order.
OfProducer(s, p) ==
    LET IsOfP(e) == e[1] = p
        sel == SelectSeq(s, IsOfP)
    IN  [k \in DOMAIN sel |-> sel[k][2]]

\* The <<producer, value>> pairs some producer has sent.
SentPairs == UNION {{<<p, prodEmitted[p][k]>> : k \in DOMAIN prodEmitted[p]} : p \in Producers}

DeliveredPairs == {delivered[k] : k \in DOMAIN delivered}

\* C4: the combined output of a fan-in over finite producers delivers exactly
\* the multiset union of the producers' values, is closed exactly once, and
\* only after every input channel was closed.
C4_FanInDeliversUnion ==
    test = "FanIn" =>
        /\ panicked = "none"
        /\ out.closes <= 1
        /\ out.closed => \A p \in Producers : inCh[p].closed
        /\ \A e \in DeliveredPairs : CountIn(delivered, e) <= CountIn(prodEmitted[e[1]], e[2])
        /\ fanConsPc = "Done" =>
              /\ out.closes = 1
              /\ \A p \in Producers : Len(prodEmitted[p]) = fanAmount[p]
              /\ \A e \in SentPairs \cup DeliveredPairs :
                    CountIn(delivered, e) = CountIn(prodEmitted[e[1]], e[2])

C4_Witness ==
    /\ test = "FanIn"
    /\ fanConsPc = "Done"
    /\ out.closes = 1
    /\ Len(delivered) = NumProducers * MaxFanAmount

\* C5: the values of each producer appear on the combined output in the order
\* in which that producer sent them, whatever the interleaving of the
\* forwarding goroutines.
C5_PerProducerOrder ==
    test = "FanIn" =>
        \A p \in Producers : IsPrefix(OfProducer(delivered, p), prodEmitted[p])

\* Values of two producers interleaved on the output: 2, 1, 2.
C5_Witness ==
    /\ test = "FanIn"
    /\ fanConsPc = "Done"
    /\ Len(delivered) >= 3
    /\ delivered[1][1] = 2
    /\ delivered[2][1] = 1
    /\ delivered[3][1] = 2
    /\ Len(OfProducer(delivered, 2)) >= 2

-----------------------------------------------------------------------------
(* Claims about the cancellation tests.                                     *)

\* Cancellation is signalled: a value is offered on the channel `cancel', or
\* the cancel function of the context was called.
CancelSignalled ==
    \/ test = "TestCancellation" /\ cancPc = "cancel"
    \/ test = "TestCancellationWithContext" /\ ctx.err # "nil"

\* The cancelling goroutine is through with its cancellation.
CancelInvoked == test \in CancelTests /\ cancPc = "exit"

\* C6: once cancellation is signalled, the consumer takes the cancel case at
\* some time, leaves the READ loop and reaches "Done", although the producer
\* offers a value on c in every iteration (the select being fair among its
\* ready cases).
C6_CancelledConsumerReachesDone ==
    CancelSignalled ~> (cancelSeen /\ cConsPc = "Done")

C6_Witness ==
    /\ test = "TestCancellation"
    /\ cancelSeen
    /\ cConsPc = "Done"
    /\ cProdPc = "send"
    /\ numPrinted = MaxPrinted

C8_NoDeliveryAfterCancelSeen ==
    [][(test \in CancelTests /\ cancelSeen)
         => (numPrinted' = numPrinted /\ number' = number /\ cConsPc' = "Done")]_vars

C8_Witness ==
    /\ test \in CancelTests
    /\ cancelSeen
    /\ cConsPc = "Done"
    /\ numPrinted = 1
    /\ cProdPc = "send"

C10_SignalStateMachine ==
    /\ (test = "TestCancellationWithContext" => ctx = ActiveCtx)
    /\ [](test = "TestCancellationWithContext" => ctx \in {ActiveCtx, CancelledCtx})
    /\ [][ctx' # ctx => (ctx = ActiveCtx /\ ctx' = CancelledCtx /\
                         cancPc = "cancel" /\ cancPc' = "exit")]_vars
    /\ [][ctx = CancelledCtx => ctx' = CancelledCtx]_vars
    /\ [](test = "TestCancellationWithContext" /\ ctx.err # "nil"
            => /\ DoneReady(ctx)
               /\ cConsPc = "select" => ENABLED CancelDone)

C10_Witness ==
    /\ test = "TestCancellationWithContext"
    /\ ctx = CancelledCtx
    /\ cConsPc = "select"
    /\ numPrinted >= 1

-----------------------------------------------------------------------------
(* Claims about the fan-in under cancellation.                              *)

\* C11: when cancellation fires while the fan-in runs, every forwarding
\* goroutine exits and the combined output channel is closed at some time,
\* exactly once and only after all forwarding goroutines have exited; no
\* panic and no second close is reachable.
C11_CancelledFanInCloses ==
    /\ [](test = "FanInCancel" =>
            /\ panicked = "none"
            /\ out.closes <= 1
            /\ out.closed => \A f \in Producers : fwdPc[f] = "exit")
    /\ ((test = "FanInCancel" /\ ctx.err # "nil")
          ~> (out.closes = 1 /\ fanConsPc = "Done" /\ \A f \in Producers : fwdPc[f] = "exit"))

C11_Witness ==
    /\ test = "FanInCancel"
    /\ ctx.err # "nil"
    /\ out.closes = 1
    /\ fanConsPc = "Done"
    /\ numPrinted = MaxPrinted
    /\ \A f \in Producers : fwdPc[f] = "exit"

-----------------------------------------------------------------------------
(* Claims about the timeouts.                                               *)

\* C12: in TestFixedTimeout the timer is the one made before the loop, the
\* READ loop is left by the timeout case only, and not before the timer has
\* fired; once the timer has fired the consumer reaches "Done", however
\* many numbers the producer, which never stops, goes on to offer.
C12_FixedTimeoutEndsLoop ==
    /\ [](test = "TestFixedTimeout" => deadline = Timeout)
    /\ [][(test = "TestFixedTimeout" /\ cConsPc # "Done" /\ cConsPc' = "Done")
            => (cConsPc = "select" /\ now >= Timeout)]_vars
    /\ ((test = "TestFixedTimeout" /\ now >= deadline) ~> (cConsPc = "Done"))

C12_Witness ==
    /\ test = "TestFixedTimeout"
    /\ cConsPc = "Done"
    /\ numPrinted = MaxPrinted
    /\ cProdPc = "send"
    /\ lastRecv = Timeout

\* C13: in TestRefreshingTimeout the timer the select waits for is the one
\* made when the current iteration began, and the timeout case is taken
\* only when the full timeout has passed since the iteration began and
\* since the last number was received from c.
C13_RefreshingTimeoutNeedsSilence ==
    /\ [](test = "TestRefreshingTimeout" /\ cConsPc = "select"
            => deadline = armedAt + Timeout /\ lastRecv <= armedAt)
    /\ [][(test = "TestRefreshingTimeout" /\ cConsPc # "Done" /\ cConsPc' = "Done")
            => (cConsPc = "select" /\ now >= armedAt + Timeout /\ now >= lastRecv + Timeout)]_vars

C13_Witness ==
    /\ test = "TestRefreshingTimeout"
    /\ cConsPc = "Done"
    /\ numPrinted = RefreshSends
    /\ cProdPc = "exit"
    /\ lastRecv >= Timeout
    /\ now >= lastRecv + Timeout

-----------------------------------------------------------------------------
(* Claims about TestOptionalWrite.                                          *)

\* C14: the first select of TestOptionalWrite, on the unbuffered c with no
\* receiver, does not block, takes the default case, leaves the channel as
\* it was, and the consumer started later never reads the discarded element.
C14_DiscardedWriteNeverDelivered ==
    /\ [](test = "TestOptionalWrite" =>
            /\ optPc = "first" => ENABLED OptFirstSelect
            /\ optFirst \in {"none", "discarded"}
            /\ optGot.write # "first"
            /\ \A k \in 1..Len(optCh.buf) : optCh.buf[k].write # "first")
    /\ [][(test = "TestOptionalWrite" /\ optPc = "first" /\ optPc' # "first")
            => (optFirst' = "discarded" /\ optPc' = "go" /\ optCh' = optCh)]_vars

C14_Witness ==
    /\ test = "TestOptionalWrite"
    /\ optFirst = "discarded"
    /\ optConsPc = "exit"
    /\ optGot = OptElement("second")

\* C15 as stated: the second select of TestOptionalWrite never takes the
\* default case, and the consumer reads the 5 it sends.
C15_SecondWriteAlwaysDelivered ==
    test = "TestOptionalWrite" /\ optPc \in {"end", "fatal"}
        => optSecond = "sent" /\ optGot = OptElement("second")

-----------------------------------------------------------------------------
(* Claims about the pitfall tests.                                          *)

C17_PitfallSpinsForEver ==
    /\ [](test = "TestClosingChannelPitfall" =>
            /\ pitPc \in {"select", "print"}
            /\ pitWg = 1
            /\ pitMainPc # "returned"
            /\ pitPc = "print" => pitCh.closed /\ pitRecv.value = 0)
    /\ ((test = "TestClosingChannelPitfall" /\ pitCh.closed /\ pitPc = "select")
          ~> (pitPc = "print" /\ pitRecv.value = 0))
    /\ ((test = "TestClosingChannelPitfall" /\ pitPc = "print") ~> (pitPc = "select"))

C17_Witness ==
    /\ test = "TestClosingChannelPitfall"
    /\ pitCh.closed
    /\ pitMainPc = "wait"
    /\ pitZeros = MaxPrinted
    /\ pitPc = "print"

-----------------------------------------------------------------------------
(* Claims about the examples of the sync package.                           *)

\* The goroutines that are between the lock and the unlock of a method.
InCritical(methods) ==
    {g \in Callers : tsPc[g] \in {"body", "unlock"} /\ tsOp[g].method \in methods}

\* C18: in every state a goroutine in the critical section of Add or Remove
\* is the only goroutine in a critical section of the map, and it is the
\* holder of the lock; the goroutines in the critical section of Get are
\* the holders of the read lock.
C18_WritersExclusive ==
    test = "ThreadSafeMap" =>
        /\ \A g \in InCritical({"Add", "Remove"}) : InCritical(TsMethods) = {g} /\ tsWriter = g
        /\ InCritical({"Add", "Remove"}) = {} => tsWriter = 0
        /\ tsReaders = InCritical({"Get"})

\* Two calls of Get in their critical sections at the same time, while
\* the map holds an entry written by an Add.
C18_Witness ==
    /\ test = "ThreadSafeMap"
    /\ Cardinality(InCritical({"Get"})) >= 2
    /\ \E k \in TsKeys : MapGet(tsMap, k) # ""

\* C19: the function passed to once.Do is begun at most once, whether the
\* calls of myFunc follow each other or overlap; a call that is past
\* once.Do finds the function returned; when all calls have returned,
\* "See it only once" was printed once and "See it twice" once per call.
C19_OnceExecutesOnce ==
    test \in OnceTests =>
        /\ onceBegun <= 1
        /\ onceEnded <= onceBegun
        /\ \A c \in OnceCalls : oncePc[c] \in {"after", "ret"} => onceEnded = 1
        /\ twice = Cardinality({c \in OnceCalls : oncePc[c] = "ret"})
        /\ (\A c \in OnceCalls : oncePc[c] = "ret") => onceEnded = 1 /\ twice = NumOnceCalls

C19_Witness ==
    /\ test = "TestOnce"
    /\ \A c \in OnceCalls : oncePc[c] = "ret"
    /\ onceEnded = 1
    /\ twice = NumOnceCalls

\* C20: in TestWaitGroup the counter starts at 2, is 2 less the number of
\* goroutines that have called wg.Done(), and never negative; wg.Wait()
\* returns only when it is 0, after both goroutines have called wg.Done(),
\* and it does return.
C20_WaitReturnsAfterBothDone ==
    /\ (test = "TestWaitGroup" => wgCount = 2)
    /\ [](test = "TestWaitGroup" =>
            /\ panicked = "none"
            /\ wgCount >= 0
            /\ wgCount = WgInitial - Cardinality({g \in WgRoutines : wgPc[g] = "exit"})
            /\ wgMainPc = "alldone" => \A g \in WgRoutines : wgPc[g] = "exit")
    /\ [][(wgMainPc' # wgMainPc) => (wgCount = 0 /\ wgMainPc' = "alldone")]_vars
    /\ (test = "TestWaitGroup" ~> wgMainPc = "alldone")

C20_Witness ==
    /\ test = "TestWaitGroup"
    /\ wgMainPc = "alldone"
    /\ wgCount = 0
    /\ \A g \in WgRoutines : wgPc[g] = "exit" /\ wgNow >= WgSleep(g)

-----------------------------------------------------------------------------
(* Claims about the closure tests.                                          *)

\* C21 as stated: in TestGoRoutineClosurePitfall every goroutine prints the
\* name of the last customer, "Jarl Varg", whatever the interleaving.
C21_AllPrintLastCustomer ==
    test = "TestGoRoutineClosurePitfall" =>
        \A g \in ClRoutines : clPrinted[g] \in {"", Customers[Len(Customers)]}

\* C22: in TestGoRoutineClosurePitfall_Fixed each goroutine prints the name
\* of its own customer, so every name is printed once; wg.Wait() has
\* returned only when all three goroutines have printed and called
\* wg.Done().
C22_EachNamePrintedOnce ==
    test = "TestGoRoutineClosurePitfall_Fixed" =>
        /\ \A g \in ClRoutines :
             /\ clPrinted[g] \in {"", Customers[g]}
             /\ clPc[g] \in {"done", "exit"} <=> clPrinted[g] = Customers[g]
        /\ clWg = ClWgInitial - Cardinality({g \in ClRoutines : clPc[g] = "exit"})
        /\ clMainPc = "returned" =>
             /\ \A g \in ClRoutines : clPc[g] = "exit"
             /\ \A nm \in {Customers[k] : k \in ClRoutines} :
                  Cardinality({g \in ClRoutines : clPrinted[g] = nm}) = 1

\* wg.Wait() has returned and all three names are printed.
C22_Witness ==
    /\ test = "TestGoRoutineClosurePitfall_Fixed"
    /\ clMainPc = "returned"
    /\ \A g \in ClRoutines : clPrinted[g] = Customers[g]

-----------------------------------------------------------------------------
(* Claims about options.New.                                                *)

\* The positions of the options in opts that set the field f.
Setting(opts, f) == {k \in 1..Len(opts) : opts[k].field = f}

\* The greatest element of a non-empty set of numbers.
MaxOf(S) == CHOOSE k \in S : \A j \in S : j <= k

\* C23: the connection New returns has, for each field, the value of the
\* last option that sets it, and the default ("default", 0) if no option
\* does; ToString gives "ip: <ip>, port: <port>", so New(WithIP("localhost"))
\* prints "ip: localhost, port: 0".
C23_OptionsAppliedInOrder ==
    (test = "TestOptionsPattern" /\ connPc \in {"ret", "printed"}) =>
        /\ conn.ip = IF Setting(optsArg, "ip") = {} THEN "default"
                     ELSE optsArg[MaxOf(Setting(optsArg, "ip"))].ip
        /\ conn.port = IF Setting(optsArg, "port") = {} THEN 0
                       ELSE optsArg[MaxOf(Setting(optsArg, "port"))].port
        /\ connPc = "printed" => connStr = <<"ip: ", conn.ip, ", port: ", conn.port>>
        /\ (connPc = "printed" /\ optsArg = <<WithIP("localhost")>>)
             => connStr = <<"ip: ", "localhost", ", port: ", 0>>

\* Two options set the ip; the second one stands, the port is the default.
C23_Witness ==
    /\ test = "TestOptionsPattern"
    /\ connPc = "printed"
    /\ optsArg = <<WithIP("10.0.0.1"), WithIP("localhost")>>
    /\ connStr = <<"ip: ", "localhost", ", port: ", 0>>

-----------------------------------------------------------------------------
(* Claims about packagelog.                                                 *)

\* C24: the module logger is the no-op logger until SetLogger is called and
\* the logger passed last to SetLogger afterwards; a call of MyCoolFunction
\* before any SetLogger emits nothing, and a call after SetLogger(l) emits
\* one Printf to l and nothing to any other logger.
C24_LogsThroughLastLogger ==
    /\ (test = "TestMyCoolFunction" => moduleLogger = "noop")
    /\ [](test = "TestMyCoolFunction" =>
            moduleLogger = IF setHistory = <<>> THEN "noop"
                           ELSE setHistory[Len(setHistory)])
    /\ [][(test = "TestMyCoolFunction" /\ logSteps' # logSteps /\ setHistory' = setHistory)
            => (/\ setHistory = <<>> => logs' = logs
                /\ \A l \in Loggers :
                     (setHistory # <<>> /\ setHistory[Len(setHistory)] = l)
                       => logs' = [logs EXCEPT ![l] = @ + 1])]_vars
    /\ [][(test = "TestMyCoolFunction" /\ setHistory' # setHistory) => logs' = logs]_vars

\* A call before any SetLogger, then SetLogger("L1"), a call,
\* SetLogger("L2") and a call.
C24_Witness ==
    /\ test = "TestMyCoolFunction"
    /\ setHistory = <<"L1", "L2">>
    /\ logSteps = 4
    /\ logs = [l \in Loggers |-> 1]

-----------------------------------------------------------------------------
(* Claims about mocking.                                                    *)

\* C25: the result of ToUpperCaseFromDatabase is the string of the provider
\* that is assigned at the call, letter by letter in upper case: "MOCK"
\* for the mock that returns "mock"; when the test has ended, with or
\* without a failed assertion, the provider is the original one again.
C25_UpperCaseAndRestored ==
    test = "TestToUpperCaseFromDatabase" =>
        /\ mockPc \in {"assert", "deferred", "end"} =>
             /\ Len(mockResult) = Len(mockRet)
             /\ \A k \in 1..Len(mockRet) :
                  /\ \A j \in 1..Len(LowerLetters) :
                       /\ mockResult[k] # LowerLetters[j]
                       /\ mockRet[k] \in {LowerLetters[j], UpperLetters[j]}
                            => mockResult[k] = UpperLetters[j]
             /\ mockRet = <<"m", "o", "c", "k">> => mockResult = <<"M", "O", "C", "K">>
        /\ mockPc \in {"deferred", "end"} =>
             (assertFailed <=> mockRet # <<"m", "o", "c", "k">>)
        /\ mockPc \in {"call", "assert", "deferred"} => provider = "mock"
        /\ mockPc = "end" => provider = "original"

\* The test has ended after a failed assertion.
C25_Witness ==
    /\ test = "TestToUpperCaseFromDatabase"
    /\ mockPc = "end"
    /\ assertFailed
    /\ mockResult = <<"A", "B">>
    /\ provider = "original"

-----------------------------------------------------------------------------
(* Claims about Person.                                                     *)

\* C26: PrintName and PrintLastName on a nil *Person return "" and do not
\* panic; on a Person they return the Name and the LastName field; a call
\* through a PersonInterface that holds no implementation panics.
C26_NilReceiverIsNoop ==
    (test = "TestPerson_PrintName" /\ personPc = "ret") =>
        /\ personVia = "nilInterface" => personRet.panic /\ panicked # "none"
        /\ personVia # "nilInterface" =>
             /\ ~personRet.panic
             /\ panicked = "none"
             /\ person.isNil => personRet.ret = ""
             /\ (~person.isNil /\ personMethod = "PrintName") => personRet.ret = person.Name
             /\ (~person.isNil /\ personMethod = "PrintLastName")
                  => personRet.ret = person.LastName

\* PrintName was called on the nil *Person and has returned "".
C26_Witness ==
    /\ test = "TestPerson_PrintName"
    /\ personPc = "ret"
    /\ person = NilPerson
    /\ personVia = "pointer"
    /\ personMethod = "PrintName"
    /\ personRet = Returned("")

-----------------------------------------------------------------------------
(* Claims about the locks and the contents of the ThreadSafeMap.            *)

\* C27: a lock of the map is held only by a goroutine that is inside a
\* method; when a call is over, also one that has panicked, its lock is
\* released, so with all calls over no lock is held, and a goroutine that
\* waits for the lock gets it.
C27_LockReleasedOnEveryPath ==
    /\ [](test = "ThreadSafeMap" =>
            /\ tsWriter # 0 => tsPc[tsWriter] \in {"body", "unlock"}
            /\ \A g \in tsReaders : tsPc[g] \in {"body", "unlock"}
            /\ \A g \in Callers :
                 tsPc[g] \in {"idle", "lock"} => (tsWriter # g /\ g \notin tsReaders))
    /\ \A g \in Callers :
         (test = "ThreadSafeMap" /\ tsPc[g] = "lock") ~> (tsPc[g] = "body")

\* A call has ended in a panic, and afterwards another goroutine holds
\* the lock.
C27_Witness ==
    /\ test = "ThreadSafeMap"
    /\ \E g, h \in Callers :
         /\ g # h
         /\ tsPanics[g]
         /\ tsPc[g] = "idle"
         /\ tsPc[h] = "body"
         /\ tsWriter = h

\* The positions in the history of the calls that write the key k.
WritesOf(hist, k) ==
    {j \in 1..Len(hist) : hist[j].key = k /\ hist[j].method \in {"Add", "Remove"}}

\* What the history says Get(k) returns: the value of the last Add(k, v)
\* that no Remove(k) follows, and "" if there is none.
LastAdded(hist, k) ==
    IF WritesOf(hist, k) = {} THEN ""
    ELSE IF hist[MaxOf(WritesOf(hist, k))].method = "Add"
      THEN hist[MaxOf(WritesOf(hist, k))].value
      ELSE ""

\* C28: on a map that is initialised, Get(k) returns the value of the last
\* Add(k, v) whose critical section came before and that no Remove(k)
\* follows, and "" if there is none; Remove of an absent key leaves the map
\* as it is.
C28_GetReturnsLastAdd ==
    /\ [](test = "ThreadSafeMap" /\ ~tsMap.isNil =>
            \A k \in TsKeys : MapGet(tsMap, k) = LastAdded(tsHist, k))
    /\ [][\A g \in Callers :
            (test = "ThreadSafeMap" /\ ~tsMap.isNil /\ tsPc[g] = "body" /\ tsPc'[g] = "unlock")
              => (/\ tsOp[g].method = "Get" => tsRet'[g] = LastAdded(tsHist, tsOp[g].key)
                  /\ (tsOp[g].method = "Remove" /\ LastAdded(tsHist, tsOp[g].key) = "")
                       => tsMap' = tsMap
                  /\ ~tsPanics'[g])]_vars

\* Two calls of Add with different values for one key, then a Get of the
\* key that has returned the second value.
C28_Witness ==
    /\ test = "ThreadSafeMap"
    /\ ~tsMap.isNil
    /\ Len(tsHist) = 3
    /\ tsHist[1].method = "Add" /\ tsHist[2].method = "Add" /\ tsHist[3].method = "Get"
    /\ tsHist[1].key = tsHist[2].key /\ tsHist[2].key = tsHist[3].key
    /\ tsHist[1].value # tsHist[2].value
    /\ \E g \in Callers : tsRet[g] = tsHist[2].value

\* C29: on a map whose field m is nil, Get returns "", Remove does nothing
\* and does not panic, Add panics and stores nothing; so no Get returns an
\* added value.
C29_NilMapAddPanics ==
    /\ [](test = "ThreadSafeMap" /\ tsMap.isNil =>
            /\ \A k \in TsKeys : tsMap.m[k] = "absent"
            /\ \A g \in Callers : tsRet[g] = "")
    /\ [][\A g \in Callers :
            (test = "ThreadSafeMap" /\ tsMap.isNil /\ tsPc[g] = "body" /\ tsPc'[g] = "unlock")
              => (/\ tsPanics'[g] <=> tsOp[g].method = "Add"
                  /\ tsMap' = tsMap
                  /\ tsOp[g].method = "Get" => tsRet'[g] = "")]_vars

\* Add has panicked on the nil map, and a Get of the same key came after it.
C29_Witness ==
    /\ test = "ThreadSafeMap"
    /\ tsMap.isNil
    /\ Len(tsHist) = 2
    /\ tsHist[1].method = "Add" /\ tsHist[2].method = "Get"
    /\ tsHist[1].key = tsHist[2].key
    /\ \E g \in Callers : tsPanics[g] /\ tsPc[g] = "idle"
    /\ \A g \in Callers : tsRet[g] = ""

-----------------------------------------------------------------------------
(* Claims about producers whose consumer stops first.                       *)

\* The consumer has left its receive loop while the producer has values left
\* to send.
ConsumerStopped ==
    \/ test \in CancelTests \cup {"TestFixedTimeout"} /\ cConsPc = "Done"
    \/ test = "RoutineBreak" /\ mainPc = "stopped"

\* The producer goroutine waits at its send.
ProducerAtSend ==
    IF test = "RoutineBreak" THEN genPc = "send" ELSE cProdPc = "send"

\* The producer goroutine has not ended and its channel is not closed.
ProducerNotDone ==
    IF test = "RoutineBreak"
      THEN genPc \in {"loop", "send"} /\ ~output.closed
      ELSE cProdPc \in {"loop", "send"}

\* C30: once the consumer has stopped receiving before the producer is done
\* (cancel or timeout in TestCancellation, TestCancellationWithContext and
\* TestFixedTimeout, or a consumer of GenerateRandomNumbers that read fewer
\* than `amount' values), the producer never ends and never closes the
\* channel, a producer waiting at its send stays there, and the producer
\* comes to wait at its send and waits there forever.
C30_ProducerNeverObservesExit ==
    /\ [](ConsumerStopped => ProducerNotDone)
    /\ [][(ConsumerStopped /\ ProducerAtSend) => ProducerAtSend']_vars
    /\ (ConsumerStopped ~> []ProducerAtSend)

\* The consumer of GenerateRandomNumbers has read one value of several and
\* left; the producer waits at the send of the next value.
C30_Witness ==
    /\ test = "RoutineBreak"
    /\ mainPc = "stopped"
    /\ Len(received) = 1
    /\ amount > 1
    /\ genPc = "send"
    /\ Len(emitted) = 2

=============================================================================
